---- MODULE Spec2Model ----
(***************************************************************************)
(* Model of log-viewer: ingestion -> schema inference -> storage ->        *)
(* filtered retrieval, and the filter orchestration of the UI's App.       *)
(*                                                                         *)
(* Representation.                                                         *)
(*  - A serde_json::Value is a record [k, i, s]: k is the kind, i the      *)
(*    numeric payload, s the text payload.  Floats are counted in quarters *)
(*    (i = 10 is 2.5).  "BigU64" is a PosInt above i64::MAX.               *)
(*  - A JsonLog is the sequence of its (name, value) entries in the        *)
(*    iteration order of its HashMap; names are unique in a record.        *)
(*  - Option<T> is a sequence of length 0 (None) or 1 (Some).              *)
(*  - A text (filter input, WHERE clause) is a sequence of tokens; the     *)
(*    whitespace token is " " and no other token contains whitespace, so   *)
(*    trimming tokens is trimming characters.                              *)
(*  - The relational store (DuckDB behind duckdb-rs) is the record conn:   *)
(*    the table's columns (<<>> while the table does not exist) and rows.  *)
(***************************************************************************)
EXTENDS Integers, Sequences, FiniteSets, TLC

(***************************************************************************)
(* Bounds of the model.                                                    *)
(***************************************************************************)
MaxBatch == 2
MaxRows == 2
MaxNames == 2

(***************************************************************************)
(* Option                                                                  *)
(***************************************************************************)
None == <<>>
Some(x) == <<x>>
IsSome(o) == Len(o) = 1

(***************************************************************************)
(* serde_json values                                                       *)
(***************************************************************************)
VNull == [k |-> "Null", i |-> 0, s |-> ""]
VBool(b) == [k |-> "Bool", i |-> IF b THEN 1 ELSE 0, s |-> ""]
VInt(n) == [k |-> IF n < 0 THEN "NegInt" ELSE "PosInt", i |-> n, s |-> ""]
VBigU64(n) == [k |-> "BigU64", i |-> n, s |-> ""]
VFloat(q) == [k |-> "Float", i |-> q, s |-> ""]
VString(t) == [k |-> "String", i |-> 0, s |-> t]
VArray(t) == [k |-> "Array", i |-> 0, s |-> t]
VObject(t) == [k |-> "Object", i |-> 0, s |-> t]

Field(name, value) == [name |-> name, value |-> value]

(***************************************************************************)
(* storage/schema.rs                                                       *)
(***************************************************************************)
FieldType == {"Text", "Integer", "Float", "Boolean", "Json"}

to_sql(t) ==
    CASE t = "Text" -> "TEXT"
      [] t = "Integer" -> "BIGINT"
      [] t = "Float" -> "DOUBLE"
      [] t = "Boolean" -> "BOOLEAN"
      [] t = "Json" -> "TEXT"

merge_no_promotion(self, other) ==
    IF self = other THEN self ELSE "Text"

merge_left_biased(self, other) ==
    IF self = other THEN self
    ELSE IF self = "Integer" /\ other = "Float" THEN "Float"
    ELSE IF self = "Float" /\ other = "Integer" THEN "Integer"
    ELSE "Text"

merge(self, other) ==
    IF self = other THEN self
    ELSE IF \/ (self = "Integer" /\ other = "Float")
            \/ (self = "Float" /\ other = "Integer")
         THEN "Float"
         ELSE "Text"

\* A classification by numeric value: a float without a fraction counts as
\* an integer.
detect_field_type_by_value(value) ==
    CASE value.k = "Null" -> "Text"
      [] value.k = "Bool" -> "Boolean"
      [] value.k \in {"PosInt", "NegInt", "BigU64"} -> "Integer"
      [] value.k = "Float" -> IF value.i % 4 = 0 THEN "Integer" ELSE "Float"
      [] value.k = "String" -> "Text"
      [] value.k \in {"Array", "Object"} -> "Json"

detect_field_type(value) ==
    CASE value.k = "Null" -> "Text"
      [] value.k = "Bool" -> "Boolean"
      [] value.k \in {"PosInt", "NegInt", "BigU64"} -> "Integer"
      [] value.k = "Float" -> "Float"
      [] value.k = "String" -> "Text"
      [] value.k \in {"Array", "Object"} -> "Json"

\* The alias table without its timestamp entry.
normalize_field_name_without_timestamp(field) ==
    CASE field = "msg" -> "message"
      [] field = "lvl" -> "level"
      [] OTHER -> field

normalize_field_name(field) ==
    CASE field = "msg" -> "message"
      [] field = "lvl" -> "level"
      [] field = "timestamp" -> "time"
      [] OTHER -> field

\* SchemaBuilder.field_types is a function from canonical names to types.
SchemaBuilder_new == [n \in {} |-> "Text"]

RECURSIVE analyze_fields(_, _, _)
analyze_fields(field_types, fields, i) ==
    IF i > Len(fields) THEN field_types
    ELSE LET normalized_name == normalize_field_name(fields[i].name)
             detected_type == detect_field_type(fields[i].value)
             updated ==
                 IF normalized_name \in DOMAIN field_types
                 THEN [field_types EXCEPT
                          ![normalized_name] = merge(@, detected_type)]
                 ELSE [n \in DOMAIN field_types \cup {normalized_name} |->
                          IF n = normalized_name THEN detected_type
                          ELSE field_types[n]]
         IN  analyze_fields(updated, fields, i + 1)

analyze_log(field_types, log) == analyze_fields(field_types, log, 1)

RECURSIVE analyze_logs_from(_, _, _)
analyze_logs_from(field_types, logs, i) ==
    IF i > Len(logs) THEN field_types
    ELSE analyze_logs_from(analyze_log(field_types, logs[i]), logs, i + 1)

analyze_logs(field_types, logs) == analyze_logs_from(field_types, logs, 1)


\* String's Ord on the field names of the model, smallest first.
NameOrder ==
    <<"a", "b", "c", "d", "id", "level", "lvl", "message", "msg", "tags",
      "time", "timestamp">>

\* SchemaBuilder::field_names: the keys, sorted.
field_names(field_types) ==
    SelectSeq(NameOrder, LAMBDA n : n \in DOMAIN field_types)

\* SchemaBuilder::generate_create_table_sql, as the statement it spells:
\* the identity column, then one column per field in sorted order.  The id
\* line always ends with a comma, so with no field the list ends in one.
generate_create_table_sql(field_types, table_name) ==
    LET fields == field_names(field_types)
    IN  [kind |-> "CREATE TABLE",
         table |-> table_name,
         columns |-> <<[name |-> "id", type |-> "INTEGER"]>> \o
                     [i \in 1..Len(fields) |->
                         [name |-> fields[i],
                          type |-> to_sql(field_types[fields[i]])]],
         trailing_comma |-> (Len(fields) = 0)]

(***************************************************************************)
(* The relational store, as the program uses it through duckdb-rs.         *)
(* A parameter or a cell is [t, i, s]: t the store's type, i the numeric   *)
(* payload (quarters for DOUBLE), s the text payload; s = "2^63+" marks a  *)
(* DOUBLE whose magnitude is beyond the 64-bit signed range.               *)
(***************************************************************************)
PNull == [t |-> "NULL", i |-> 0, s |-> ""]
PBool(i) == [t |-> "BOOLEAN", i |-> i, s |-> ""]
PBigInt(i) == [t |-> "BIGINT", i |-> i, s |-> ""]
PDouble(q, mark) == [t |-> "DOUBLE", i |-> q, s |-> mark]
PText(s) == [t |-> "VARCHAR", i |-> 0, s |-> s]

\* The texts of the model that the store parses as integers.
NumericText ==
    [s \in {"30", "40", "50", "999"} |->
        CASE s = "30" -> 30 [] s = "40" -> 40 [] s = "50" -> 50
          [] s = "999" -> 999]

DoubleText(q) ==
    ToString(q \div 4) \o
        (CASE q % 4 = 0 -> ".0" [] q % 4 = 1 -> ".25"
           [] q % 4 = 2 -> ".5" [] q % 4 = 3 -> ".75")

\* DOUBLE -> BIGINT rounds to the nearest integer, ties to even.
RoundQuarters(q) ==
    LET w == q \div 4
        r == q % 4
    IN  IF r < 2 THEN w
        ELSE IF r > 2 THEN w + 1
        ELSE IF w % 2 = 0 THEN w ELSE w + 1

\* The store's implicit cast of a bound parameter to a column's declared
\* type: [ok, cell].  A failed cast is the store rejecting the row.
CastParam(p, type) ==
    LET ok(c) == [ok |-> TRUE, cell |-> c]
        fail == [ok |-> FALSE, cell |-> PNull]
    IN  IF p.t = "NULL" THEN ok(PNull)
        ELSE CASE type = "TEXT" ->
                    (CASE p.t = "VARCHAR" -> ok(p)
                       [] p.t = "BIGINT" -> ok(PText(ToString(p.i)))
                       [] p.t = "BOOLEAN" ->
                            ok(PText(IF p.i = 1 THEN "true" ELSE "false"))
                       [] p.t = "DOUBLE" ->
                            ok(PText(IF p.s = "" THEN DoubleText(p.i)
                                     ELSE p.s)))
               [] type = "BIGINT" ->
                    (CASE p.t = "BIGINT" -> ok(p)
                       [] p.t = "BOOLEAN" -> ok(PBigInt(p.i))
                       [] p.t = "DOUBLE" ->
                            IF p.s = "" THEN ok(PBigInt(RoundQuarters(p.i)))
                            ELSE fail
                       [] p.t = "VARCHAR" ->
                            IF p.s \in DOMAIN NumericText
                            THEN ok(PBigInt(NumericText[p.s])) ELSE fail)
               [] type = "DOUBLE" ->
                    (CASE p.t = "DOUBLE" -> ok(p)
                       [] p.t \in {"BIGINT", "BOOLEAN"} ->
                            ok(PDouble(4 * p.i, ""))
                       [] p.t = "VARCHAR" ->
                            IF p.s \in DOMAIN NumericText
                            THEN ok(PDouble(4 * NumericText[p.s], ""))
                            ELSE fail)
               [] type = "BOOLEAN" ->
                    (CASE p.t = "BOOLEAN" -> ok(p)
                       [] p.t \in {"BIGINT", "DOUBLE"} ->
                            ok(PBool(IF p.i = 0 THEN 0 ELSE 1))
                       [] p.t = "VARCHAR" ->
                            IF p.s \in {"true", "false"}
                            THEN ok(PBool(IF p.s = "true" THEN 1 ELSE 0))
                            ELSE fail)

Connection_open_in_memory == [columns |-> <<>>, rows |-> <<>>]

TableExists(conn) == conn.columns # <<>>

ColumnNames(conn) == [i \in 1..Len(conn.columns) |-> conn.columns[i].name]

ColumnIndex(conn, name) ==
    CHOOSE i \in 1..Len(conn.columns) : conn.columns[i].name = name

\* conn.execute(DDL): fails when the table exists or a column name repeats.
conn_execute_create(conn, ddl) ==
    IF \/ TableExists(conn)
       \/ \E i, j \in 1..Len(ddl.columns) :
             i # j /\ ddl.columns[i].name = ddl.columns[j].name
    THEN [ok |-> FALSE, conn |-> conn]
    ELSE [ok |-> TRUE, conn |-> [conn EXCEPT !.columns = ddl.columns]]

\* execute("INSERT INTO t (names) VALUES (?1, ...)", params): every
\* parameter is cast to its column's type; the identity column takes the
\* next value of the sequence.  [ok, conn].
conn_execute_insert(conn, names, params) ==
    LET casts == [i \in 1..Len(names) |->
                    CastParam(params[i],
                              conn.columns[ColumnIndex(conn, names[i])].type)]
        pos(c) == CHOOSE i \in 1..Len(names) : names[i] = conn.columns[c].name
        row == [c \in 1..Len(conn.columns) |->
                  IF conn.columns[c].name = "id"
                  THEN [t |-> "INTEGER", i |-> Len(conn.rows) + 1, s |-> ""]
                  ELSE casts[pos(c)].cell]
    IN  IF \A i \in 1..Len(names) : casts[i].ok
        THEN [ok |-> TRUE, conn |-> [conn EXCEPT !.rows = Append(@, row)]]
        ELSE [ok |-> FALSE, conn |-> conn]


(***************************************************************************)
(* storage/database.rs: LogDatabase = [conn, field_names]; the table name  *)
(* is always "logs".  An operation returns [self, ret, sent]: the          *)
(* database after the call, the Result ([ok, val, err]) and the statements *)
(* it sent to the store.                                                   *)
(***************************************************************************)
table_name == "logs"

Ok(v) == [ok |-> TRUE, val |-> v, err |-> ""]
Err(e) == [ok |-> FALSE, val |-> <<>>, err |-> e]

ErrNotCreated == "Cannot insert: table not created yet"
ErrStore == "Database error"

LogDatabase_new_in_memory ==
    [conn |-> Connection_open_in_memory, field_names |-> <<>>]

\* The table built from all the records, whatever sample_size says.
create_table_from_logs_unsampled(self, logs, sample_size) ==
    LET schema_builder == analyze_logs(SchemaBuilder_new, logs)
        create_sql == generate_create_table_sql(schema_builder, table_name)
        r == conn_execute_create(self.conn, create_sql)
    IN  IF ~r.ok
        THEN [self |-> self, ret |-> Err(ErrStore), sent |-> <<"CREATE">>]
        ELSE [self |-> [conn |-> r.conn,
                        field_names |-> field_names(schema_builder)],
              ret |-> Ok(<<>>), sent |-> <<"CREATE">>]

create_table_from_logs(self, logs, sample_size) ==
    LET sample_logs == IF Len(logs) > sample_size
                       THEN SubSeq(logs, 1, sample_size) ELSE logs
        schema_builder == analyze_logs(SchemaBuilder_new, sample_logs)
        create_sql == generate_create_table_sql(schema_builder, table_name)
        r == conn_execute_create(self.conn, create_sql)
    IN  IF ~r.ok
        THEN [self |-> self, ret |-> Err(ErrStore), sent |-> <<"CREATE">>]
        ELSE [self |-> [conn |-> r.conn,
                        field_names |-> field_names(schema_builder)],
              ret |-> Ok(<<>>), sent |-> <<"CREATE">>]

\* A lookup by the raw name, without normalization.
FindField_by_raw_name(log, field_name) ==
    LET hits == SelectSeq(log, LAMBDA f : f.name = field_name)
    IN  IF hits = <<>> THEN None ELSE Some(hits[1].value)

\* The first entry, in the record's iteration order, whose normalized name
\* is field_name; None when there is none.
FindField(log, field_name) ==
    LET hits == SelectSeq(log,
                    LAMBDA f : normalize_field_name(f.name) = field_name)
    IN  IF hits = <<>> THEN None ELSE Some(hits[1].value)

ValueToParam(value) ==
    IF value = None THEN PNull
    ELSE LET v == value[1]
         IN  CASE v.k = "Null" -> PNull
               [] v.k = "Bool" -> PBool(v.i)
               [] v.k \in {"PosInt", "NegInt"} -> PBigInt(v.i)
               [] v.k = "BigU64" -> PDouble(v.i, "2^63+")
               [] v.k = "Float" -> PDouble(v.i, "")
               [] v.k = "String" -> PText(v.s)
               [] v.k \in {"Array", "Object"} -> PText(v.s)

\* The parameters in the opposite order of the columns.
extract_params_from_log_reversed(self, log) ==
    [i \in 1..Len(self.field_names) |->
        ValueToParam(FindField(log,
            self.field_names[Len(self.field_names) + 1 - i]))]

extract_params_from_log(self, log) ==
    [i \in 1..Len(self.field_names) |->
        ValueToParam(FindField(log, self.field_names[i]))]

\* The insert without the check of field_names: the statement is sent
\* whatever the state of the table, and the store refuses it when there is
\* no table.
insert_log_unchecked(self, log) ==
    LET params == extract_params_from_log(self, log)
        r == IF TableExists(self.conn)
             THEN conn_execute_insert(self.conn, self.field_names, params)
             ELSE [ok |-> FALSE, conn |-> self.conn]
    IN  IF r.ok
        THEN [self |-> [self EXCEPT !.conn = r.conn],
              ret |-> Ok(<<>>), sent |-> <<"INSERT">>]
        ELSE [self |-> self, ret |-> Err(ErrStore), sent |-> <<"INSERT">>]

\* An insert that refuses a record with a field outside the schema.
insert_log_rejects_unknown(self, log) ==
    IF self.field_names = <<>>
    THEN [self |-> self, ret |-> Err(ErrNotCreated), sent |-> <<>>]
    ELSE IF \E j \in 1..Len(log) :
               \A i \in 1..Len(self.field_names) :
                   normalize_field_name(log[j].name) # self.field_names[i]
    THEN [self |-> self, ret |-> Err(ErrStore), sent |-> <<"INSERT">>]
    ELSE LET params == extract_params_from_log(self, log)
             r == conn_execute_insert(self.conn, self.field_names, params)
         IN  IF r.ok
             THEN [self |-> [self EXCEPT !.conn = r.conn],
                   ret |-> Ok(<<>>), sent |-> <<"INSERT">>]
             ELSE [self |-> self, ret |-> Err(ErrStore),
                   sent |-> <<"INSERT">>]

insert_log(self, log) ==
    IF self.field_names = <<>>
    THEN [self |-> self, ret |-> Err(ErrNotCreated), sent |-> <<>>]
    ELSE LET params == extract_params_from_log(self, log)
             r == conn_execute_insert(self.conn, self.field_names, params)
         IN  IF r.ok
             THEN [self |-> [self EXCEPT !.conn = r.conn],
                   ret |-> Ok(<<>>), sent |-> <<"INSERT">>]
             ELSE [self |-> self, ret |-> Err(ErrStore),
                   sent |-> <<"INSERT">>]

\* The loop of insert_logs over all_params from position i on: it stops at
\* the first statement the store rejects.  [ok, conn, inserted].
RECURSIVE execute_batch(_, _, _, _, _)
execute_batch(conn, names, all_params, i, inserted) ==
    IF i > Len(all_params)
    THEN [ok |-> TRUE, conn |-> conn, inserted |-> inserted]
    ELSE LET r == conn_execute_insert(conn, names, all_params[i])
         IN  IF ~r.ok
             THEN [ok |-> FALSE, conn |-> conn, inserted |-> inserted]
             ELSE execute_batch(r.conn, names, all_params, i + 1,
                                inserted + 1)

InsertStatements(n) == [i \in 1..n |-> "INSERT"]

\* The batch without the transaction: every accepted row is kept.
insert_logs_autocommit(self, logs) ==
    IF self.field_names = <<>>
    THEN [self |-> self, ret |-> Err(ErrNotCreated), sent |-> <<>>]
    ELSE LET all_params == [i \in 1..Len(logs) |->
                               extract_params_from_log(self, logs[i])]
             b == execute_batch(self.conn, self.field_names, all_params, 1, 0)
         IN  [self |-> [self EXCEPT !.conn = b.conn],
              ret |-> IF b.ok THEN Ok(b.inserted) ELSE Err(ErrStore),
              sent |-> InsertStatements(
                          IF b.ok THEN b.inserted ELSE b.inserted + 1)]

\* tx is the connection inside the transaction; the connection as it was at
\* BEGIN is what a rollback restores.  Leaving the function through `?`
\* drops tx uncommitted, which rolls it back.
insert_logs(self, logs) ==
    IF self.field_names = <<>>
    THEN [self |-> self, ret |-> Err(ErrNotCreated), sent |-> <<>>]
    ELSE LET all_params == [i \in 1..Len(logs) |->
                               extract_params_from_log(self, logs[i])]
             at_begin == self.conn
             tx == execute_batch(at_begin, self.field_names, all_params, 1, 0)
         IN  IF tx.ok
             THEN [self |-> [self EXCEPT !.conn = tx.conn],
                   ret |-> Ok(tx.inserted),
                   sent |-> <<"BEGIN">> \o InsertStatements(tx.inserted)
                            \o <<"COMMIT">>]
             ELSE [self |-> [self EXCEPT !.conn = at_begin],
                   ret |-> Err(ErrStore),
                   sent |-> <<"BEGIN">> \o InsertStatements(tx.inserted + 1)
                            \o <<"ROLLBACK">>]

count_logs(self) ==
    IF TableExists(self.conn) THEN Ok(Len(self.conn.rows)) ELSE Err(ErrStore)


(***************************************************************************)
(* The store's evaluation of "SELECT * FROM logs WHERE <text>".  SQL       *)
(* skips whitespace between tokens; the expressions of the model are the   *)
(* comparisons <column> <op> <integer literal>.                            *)
(***************************************************************************)
Whitespace == " "

SqlTokens(text) == SelectSeq(text, LAMBDA c : c # Whitespace)

IsComparison(toks) ==
    /\ Len(toks) = 3
    /\ toks[2] \in {">=", "<"}
    /\ toks[3] \in DOMAIN NumericText

Compare(op, a, b) == IF op = ">=" THEN a >= b ELSE a < b

\* A VARCHAR cell compared with an integer is cast to an integer first; a
\* text that is no number fails the whole statement.
CellConversionError(cell) ==
    cell.t = "VARCHAR" /\ cell.s \notin DOMAIN NumericText

CellSatisfies(cell, op, lit) ==
    CASE cell.t = "NULL" -> FALSE
      [] cell.t \in {"BIGINT", "INTEGER", "BOOLEAN"} -> Compare(op, cell.i, lit)
      [] cell.t = "DOUBLE" ->
            IF cell.s = "" THEN Compare(op, cell.i, 4 * lit)
            ELSE Compare(op, 1, 0)
      [] cell.t = "VARCHAR" ->
            IF cell.s \in DOMAIN NumericText
            THEN Compare(op, NumericText[cell.s], lit) ELSE FALSE

\* prepare + execute of the SELECT: [ok, rows], rows in table order.
conn_query(conn, where_clause) ==
    IF ~TableExists(conn) THEN [ok |-> FALSE, rows |-> <<>>]
    ELSE IF where_clause = None THEN [ok |-> TRUE, rows |-> conn.rows]
    ELSE LET toks == SqlTokens(where_clause[1])
         IN  IF ~IsComparison(toks)
             THEN [ok |-> FALSE, rows |-> <<>>]
             ELSE IF toks[1] \notin {conn.columns[c].name :
                                        c \in 1..Len(conn.columns)}
             THEN [ok |-> FALSE, rows |-> <<>>]
             ELSE LET c == ColumnIndex(conn, toks[1])
                      lit == NumericText[toks[3]]
                  IN  IF \E r \in 1..Len(conn.rows) :
                            CellConversionError(conn.rows[r][c])
                      THEN [ok |-> FALSE, rows |-> <<>>]
                      ELSE [ok |-> TRUE,
                            rows |-> SelectSeq(conn.rows,
                                LAMBDA row :
                                    CellSatisfies(row[c], toks[2], lit))]

(***************************************************************************)
(* duckdb-rs typed getters, row.get::<_, T>(i): [ok, v].  The i64 getter   *)
(* also accepts a DOUBLE in range, truncated towards zero.                 *)
(***************************************************************************)
Truncate(q) == IF q >= 0 THEN q \div 4 ELSE -((-q) \div 4)

row_get_String(cell) == [ok |-> cell.t = "VARCHAR", v |-> cell.s]

row_get_i64(cell) ==
    CASE cell.t \in {"BIGINT", "INTEGER"} -> [ok |-> TRUE, v |-> cell.i]
      [] cell.t = "DOUBLE" /\ cell.s = "" ->
            [ok |-> TRUE, v |-> Truncate(cell.i)]
      [] OTHER -> [ok |-> FALSE, v |-> 0]

row_get_f64(cell) ==
    CASE cell.t \in {"BIGINT", "INTEGER"} -> [ok |-> TRUE, v |-> 4 * cell.i]
      [] cell.t = "DOUBLE" -> [ok |-> TRUE, v |-> cell.i]
      [] OTHER -> [ok |-> FALSE, v |-> 0]

row_get_bool(cell) == [ok |-> cell.t = "BOOLEAN", v |-> cell.i = 1]

\* The probe with the double before the integer.
CellToValue_double_first(cell) ==
    IF row_get_String(cell).ok THEN VString(row_get_String(cell).v)
    ELSE IF row_get_f64(cell).ok
         THEN [k |-> "Float", i |-> row_get_f64(cell).v, s |-> cell.s]
    ELSE IF row_get_i64(cell).ok THEN VInt(row_get_i64(cell).v)
    ELSE IF row_get_bool(cell).ok THEN VBool(row_get_bool(cell).v)
    ELSE VNull

\* The probe of query_logs: string, i64, f64, bool, else null.
CellToValue(cell) ==
    IF row_get_String(cell).ok THEN VString(row_get_String(cell).v)
    ELSE IF row_get_i64(cell).ok THEN VInt(row_get_i64(cell).v)
    ELSE IF row_get_f64(cell).ok
         THEN [k |-> "Float", i |-> row_get_f64(cell).v, s |-> cell.s]
    ELSE IF row_get_bool(cell).ok THEN VBool(row_get_bool(cell).v)
    ELSE VNull

\* The closure of query_map: one JsonLog per row, the id column skipped.
RowToLog(column_names, row) ==
    LET kept == SelectSeq([i \in 1..Len(column_names) |-> i],
                          LAMBDA i : column_names[i] # "id")
    IN  [j \in 1..Len(kept) |->
            Field(column_names[kept[j]], CellToValue(row[kept[j]]))]

\* A query that drops the WHERE clause.
query_logs_without_where(self, where_clause) ==
    LET q == conn_query(self.conn, None)
        column_names == ColumnNames(self.conn)
    IN  IF ~q.ok
        THEN [ret |-> Err(ErrStore), sent |-> <<"SELECT">>]
        ELSE [ret |-> Ok([r \in 1..Len(q.rows) |->
                             RowToLog(column_names, q.rows[r])]),
              sent |-> <<"SELECT">>]

query_logs(self, where_clause) ==
    LET q == conn_query(self.conn, where_clause)
        column_names == ColumnNames(self.conn)
    IN  IF ~q.ok
        THEN [ret |-> Err(ErrStore), sent |-> <<"SELECT">>]
        ELSE [ret |-> Ok([r \in 1..Len(q.rows) |->
                             RowToLog(column_names, q.rows[r])]),
              sent |-> <<"SELECT">>]

\* PRAGMA table_info reports a TEXT column as VARCHAR.
DeclaredTypeName(type) == IF type = "TEXT" THEN "VARCHAR" ELSE type

get_schema(self) ==
    IF ~TableExists(self.conn) THEN Err(ErrStore)
    ELSE LET cols == SelectSeq(self.conn.columns, LAMBDA c : c.name # "id")
         IN  Ok([i \in 1..Len(cols) |->
                   LET type_str == DeclaredTypeName(cols[i].type)
                   IN  <<cols[i].name,
                         CASE type_str = "TEXT" -> "Text"
                           [] type_str = "BIGINT" -> "Integer"
                           [] type_str = "DOUBLE" -> "Float"
                           [] type_str = "BOOLEAN" -> "Boolean"
                           [] OTHER -> "Text">>])


(***************************************************************************)
(* ui/app.rs: App.  filter_input is the TextArea's lines.  An operation    *)
(* that can fail or reach the store returns [self, ret, sent].             *)
(***************************************************************************)
TextArea_default == << <<>> >>
TextArea_from(text) == <<text>>

\* lines().join("")
RECURSIVE JoinLines(_)
JoinLines(lines) ==
    IF lines = <<>> THEN <<>> ELSE Head(lines) \o JoinLines(Tail(lines))

\* str::trim
RECURSIVE TrimStart(_)
TrimStart(text) ==
    IF text # <<>> /\ Head(text) = Whitespace THEN TrimStart(Tail(text))
    ELSE text

RECURSIVE TrimEnd(_)
TrimEnd(text) ==
    IF text # <<>> /\ text[Len(text)] = Whitespace
    THEN TrimEnd(SubSeq(text, 1, Len(text) - 1))
    ELSE text

Trim(text) == TrimEnd(TrimStart(text))

App_new(all_logs, field_schema) ==
    [all_logs |-> all_logs,
     filtered_logs |-> <<>>,
     field_schema |-> field_schema,
     selected_index |-> 0,
     scroll_offset |-> 0,
     view_mode |-> "AllLogs",
     show_detail_panel |-> FALSE,
     active_filter |-> None,
     filter_input |-> TextArea_default,
     show_filter_panel |-> FALSE,
     filter_error |-> None,
     show_help |-> FALSE,
     show_debug_logs |-> FALSE,
     focus |-> "LogList",
     should_quit |-> FALSE]

current_logs(self) ==
    IF self.view_mode = "AllLogs" THEN self.all_logs ELSE self.filtered_logs

Min(a, b) == IF a < b THEN a ELSE b

move_down(self) ==
    LET logs_len == Len(current_logs(self))
    IN  IF logs_len > 0
        THEN [self EXCEPT
                 !.selected_index = Min(self.selected_index + 1, logs_len - 1)]
        ELSE self

move_up(self) ==
    IF self.selected_index > 0
    THEN [self EXCEPT !.selected_index = @ - 1]
    ELSE self

clear_filter_keeps_error(self) ==
    [self EXCEPT !.active_filter = None,
                 !.view_mode = "AllLogs",
                 !.selected_index = 0,
                 !.filter_input = TextArea_default]

clear_filter(self) ==
    [self EXCEPT !.active_filter = None,
                 !.view_mode = "AllLogs",
                 !.selected_index = 0,
                 !.filter_error = None,
                 !.filter_input = TextArea_default]

\* The Ok arm of apply_filter.
apply_filter_ok_keeps_selection(self, trimmed, logs) ==
    [self EXCEPT !.filtered_logs = logs,
                 !.active_filter = Some(trimmed),
                 !.view_mode = "Filtered",
                 !.filter_error = None,
                 !.show_filter_panel = FALSE,
                 !.focus = "LogList"]

apply_filter_ok_ignores_empty(self, trimmed, logs) ==
    [self EXCEPT !.filtered_logs = IF logs = <<>> THEN @ ELSE logs,
                 !.active_filter = Some(trimmed),
                 !.view_mode = "Filtered",
                 !.selected_index = 0,
                 !.filter_error = None,
                 !.show_filter_panel = FALSE,
                 !.focus = "LogList"]

apply_filter_ok(self, trimmed, logs) ==
    [self EXCEPT !.filtered_logs = logs,
                 !.active_filter = Some(trimmed),
                 !.view_mode = "Filtered",
                 !.selected_index = 0,
                 !.filter_error = None,
                 !.show_filter_panel = FALSE,
                 !.focus = "LogList"]

\* The Err arm of apply_filter.
apply_filter_err_drops_results(self, e) ==
    [self EXCEPT !.filter_error = Some("SQL Error: " \o e),
                 !.filtered_logs = <<>>,
                 !.active_filter = None]

apply_filter_err(self, e) ==
    [self EXCEPT !.filter_error = Some("SQL Error: " \o e)]

\* apply_filter testing the raw text, not the trimmed one, for emptiness.
apply_filter_untrimmed_test(self, db) ==
    LET filter_text == JoinLines(self.filter_input)
        trimmed == Trim(filter_text)
    IN  IF filter_text = <<>>
        THEN [self |-> clear_filter(self), ret |-> Ok(<<>>), sent |-> <<>>]
        ELSE LET q == query_logs(db, Some(trimmed))
             IN  IF q.ret.ok
                 THEN [self |-> apply_filter_ok(self, trimmed, q.ret.val),
                       ret |-> Ok(<<>>), sent |-> q.sent]
                 ELSE [self |-> apply_filter_err(self, q.ret.err),
                       ret |-> Err(q.ret.err), sent |-> q.sent]

apply_filter(self, db) ==
    LET filter_text == JoinLines(self.filter_input)
        trimmed == Trim(filter_text)
    IN  IF trimmed = <<>>
        THEN [self |-> clear_filter(self), ret |-> Ok(<<>>), sent |-> <<>>]
        ELSE LET q == query_logs(db, Some(trimmed))
             IN  IF q.ret.ok
                 THEN [self |-> apply_filter_ok(self, trimmed, q.ret.val),
                       ret |-> Ok(<<>>), sent |-> q.sent]
                 ELSE [self |-> apply_filter_err(self, q.ret.err),
                       ret |-> Err(q.ret.err), sent |-> q.sent]

\* A preset that applies whatever the input held.
apply_preset_filter_stale_input(self, db, filter) ==
    apply_filter(self, db)

apply_preset_filter(self, db, filter) ==
    apply_filter([self EXCEPT !.filter_input = TextArea_from(filter)], db)


(***************************************************************************)
(* ingestion/models.rs.  A u64 read from a record is [big, n]: n itself,   *)
(* or, when big, the value counted from 2^63.                              *)
(***************************************************************************)
LogLevel == {"Trace", "Debug", "Info", "Warn", "Error", "Fatal"}

\* The discriminant of a variant.
LogLevel_discriminant(self) ==
    CASE self = "Trace" -> 10
      [] self = "Debug" -> 20
      [] self = "Info" -> 30
      [] self = "Warn" -> 40
      [] self = "Error" -> 50
      [] self = "Fatal" -> 60

\* The conversion that counts the levels in steps of ten from Trace on.
LogLevel_from_u64_by_tens(level) ==
    IF level % 10 # 0 \/ level = 0 THEN None
    ELSE Some(CHOOSE l \in LogLevel :
                 LogLevel_discriminant(l) =
                     IF level > 60 THEN 60 ELSE level)

LogLevel_from_u64(level) ==
    CASE level = 10 -> Some("Trace")
      [] level = 20 -> Some("Debug")
      [] level = 30 -> Some("Info")
      [] level = 40 -> Some("Warn")
      [] level = 50 -> Some("Error")
      [] level = 60 -> Some("Fatal")
      [] OTHER -> None

LogLevel_as_u64(self) == LogLevel_discriminant(self)

\* The derived PartialOrd and Ord compare the discriminants.
LogLevel_lt(self, other) ==
    LogLevel_discriminant(self) < LogLevel_discriminant(other)

\* HashMap::get
get_field(self, key) ==
    LET hits == SelectSeq(self, LAMBDA f : f.name = key)
    IN  IF hits = <<>> THEN None ELSE Some(hits[1].value)

\* fields.get("time")?.as_i64()
get_timestamp_ms(self) ==
    LET v == get_field(self, "time")
    IN  IF IsSome(v) /\ v[1].k \in {"PosInt", "NegInt"} THEN Some(v[1].i)
        ELSE None

\* fields.get("msg")?.as_str()
get_message(self) ==
    LET v == get_field(self, "msg")
    IN  IF IsSome(v) /\ v[1].k = "String" THEN Some(v[1].s) ELSE None

\* fields.get("level")?.as_u64()
get_level_raw(self) ==
    LET v == get_field(self, "level")
    IN  IF IsSome(v) /\ v[1].k \in {"PosInt", "BigU64"}
        THEN Some([big |-> v[1].k = "BigU64", n |-> v[1].i])
        ELSE None

get_level(self) ==
    LET level == get_level_raw(self)
    IN  IF ~IsSome(level) THEN None
        ELSE IF level[1].big THEN None
        ELSE LogLevel_from_u64(level[1].n)


(***************************************************************************)
(* Inputs of the model.                                                    *)
(***************************************************************************)
LogInfo == <<Field("level", VInt(30)), Field("msg", VString("hello world"))>>
LogError == <<Field("level", VInt(50)), Field("message", VString("boom"))>>
LogTextLevel == <<Field("level", VString("high"))>>
LogNullLevel == <<Field("level", VNull), Field("msg", VString("quiet"))>>
LogFloatLevel == <<Field("level", VFloat(10))>>
\* {"a":1,"b":2.5,"c":true,"d":"x"}
LogScalars ==
    <<Field("a", VInt(1)), Field("b", VFloat(10)), Field("c", VBool(TRUE)),
      Field("d", VString("x"))>>
LogTags == <<Field("level", VInt(40)), Field("tags", VArray("[1,2]"))>>
\* Records holding two aliases of one column.
LogBothLevels == <<Field("lvl", VInt(30)), Field("level", VFloat(10))>>
LogBothMessages ==
    <<Field("msg", VString("hello world")), Field("message", VInt(-1))>>
\* {"level":2.0}
LogWholeFloat == <<Field("level", VFloat(8))>>
\* {"c":false,"tags":{}}
LogFlags == <<Field("c", VBool(FALSE)), Field("tags", VObject("{}"))>>
\* {"a":9223372036854775808}: the payload counts from 2^63.
LogBigCount == <<Field("a", VBigU64(0))>>
\* {"a":0.5}
LogHalfCount == <<Field("a", VFloat(2))>>

Pool == {LogInfo, LogError, LogTextLevel, LogNullLevel, LogFloatLevel}

Batches == UNION {[1..n -> Pool] : n \in 0..MaxBatch}

PresetError == <<"level", " ", ">=", " ", "50">>
PresetWarn == <<"level", " ", ">=", " ", "40">>
\* "time >= <now - 1h>", the wall clock read as 999.
PresetLastHour == <<"time", " ", ">=", " ", "999">>
Presets == {PresetError, PresetWarn, PresetLastHour}

FilterTexts ==
    Presets \cup
    {<<>>, <<" ">>,
     <<" ", "level", " ", ">=", " ", "40", " ">>,
     <<"level", " ", ">=", " ", "999">>,
     <<"level", " ", ">=">>,
     <<"message", "<", "40">>}

(***************************************************************************)
(* ui/app.rs and ui/event.rs: navigation, panels and the key handlers.  A  *)
(* key is [code, modifiers]; the code of KeyCode::Char(c) is c.  A handler *)
(* returns the set of the Apps it can leave: the text area's edit of the   *)
(* input on a key is not modelled key by key, the input becomes one of     *)
(* FilterTexts.                                                            *)
(***************************************************************************)
toggle_debug_logs(self) ==
    [self EXCEPT !.show_debug_logs = ~self.show_debug_logs]

jump_to_first(self) == [self EXCEPT !.selected_index = 0]

\* jump_to_last without the test of logs_len.
jump_to_last_unguarded(self) ==
    [self EXCEPT !.selected_index = Len(current_logs(self)) - 1]

jump_to_last(self) ==
    LET logs_len == Len(current_logs(self))
    IN  IF logs_len > 0 THEN [self EXCEPT !.selected_index = logs_len - 1]
        ELSE self

\* usize::saturating_sub
saturating_sub(a, b) == IF a > b THEN a - b ELSE 0

scroll_down_half_page(self, page_height) ==
    LET logs_len == Len(current_logs(self))
        half_page == page_height \div 2
    IN  IF logs_len > 0
        THEN [self EXCEPT !.selected_index =
                              Min(self.selected_index + half_page,
                                  logs_len - 1)]
        ELSE self

scroll_up_half_page(self, page_height) ==
    LET half_page == page_height \div 2
    IN  [self EXCEPT !.selected_index =
                         saturating_sub(self.selected_index, half_page)]

scroll_down_page(self, page_height) ==
    LET logs_len == Len(current_logs(self))
    IN  IF logs_len > 0
        THEN [self EXCEPT !.selected_index =
                              Min(self.selected_index + page_height,
                                  logs_len - 1)]
        ELSE self

scroll_up_page(self, page_height) ==
    [self EXCEPT !.selected_index =
                     saturating_sub(self.selected_index, page_height)]

toggle_detail_panel(self) ==
    [self EXCEPT !.show_detail_panel = ~self.show_detail_panel]

toggle_filter_panel(self) ==
    [self EXCEPT !.show_filter_panel = ~self.show_filter_panel,
                 !.focus = IF ~self.show_filter_panel THEN "FilterPresets"
                           ELSE "LogList"]

toggle_help(self) == [self EXCEPT !.show_help = ~self.show_help]

focus_filter(self) ==
    [self EXCEPT !.focus = "FilterInput", !.show_filter_panel = TRUE]

quit(self) == [self EXCEPT !.should_quit = TRUE]

Key(code, modifiers) == [code |-> code, modifiers |-> modifiers]

\* The codes that are KeyCode::Char(_).
Chars ==
    {"q", "j", "k", "g", "G", "d", "u", "f", "b", "/", "c", "?", "L", "1",
     "2", "3", "x"}

\* TextArea::input
TextArea_input(textarea, key) == {TextArea_from(text) : text \in FilterTexts}

handle_log_list_keys(app, key, page_height) ==
    LET code == key.code
        none == key.modifiers = "NONE"
        control == key.modifiers = "CONTROL"
    IN  CASE code \in {"q", "Esc"} -> {quit(app)}
          [] code \in {"j", "Down"} -> {move_down(app)}
          [] code \in {"k", "Up"} -> {move_up(app)}
          [] code = "g" /\ none -> {jump_to_first(app)}
          [] code = "G" -> {jump_to_last(app)}
          [] code = "d" /\ control -> {scroll_down_half_page(app, page_height)}
          [] code = "u" /\ control -> {scroll_up_half_page(app, page_height)}
          [] code = "f" /\ control -> {scroll_down_page(app, page_height)}
          [] code = "b" /\ control -> {scroll_up_page(app, page_height)}
          [] code = "PageDown" -> {scroll_down_page(app, page_height)}
          [] code = "PageUp" -> {scroll_up_page(app, page_height)}
          [] code = "d" /\ none -> {toggle_detail_panel(app)}
          [] code = "f" /\ none -> {toggle_filter_panel(app)}
          [] code = "/" -> {focus_filter(app)}
          [] code = "c" -> {clear_filter(app)}
          [] code = "?" -> {toggle_help(app)}
          [] OTHER -> {app}

handle_filter_input_keys(app, db, key) ==
    CASE key.code = "Esc" -> {[app EXCEPT !.focus = "FilterPresets"]}
      [] key.code = "Enter" -> {apply_filter(app, db).self}
      [] OTHER -> {[app EXCEPT !.filter_input = t] :
                      t \in TextArea_input(app.filter_input, key)}

handle_filter_presets_keys(app, db, key) ==
    CASE key.code = "Esc" -> {toggle_filter_panel(app)}
      [] key.code = "1" -> {apply_preset_filter(app, db, PresetError).self}
      [] key.code = "2" -> {apply_preset_filter(app, db, PresetWarn).self}
      [] key.code = "3" -> {apply_preset_filter(app, db, PresetLastHour).self}
      [] key.code \in Chars \cup {"Backspace", "Delete", "Left", "Right",
                                 "Home", "End"} ->
            {[app EXCEPT !.focus = "FilterInput", !.filter_input = t] :
                t \in TextArea_input(app.filter_input, key)}
      [] OTHER -> {app}

handle_key_event(app, db, key, page_height) ==
    IF app.show_help
    THEN IF key.code \in {"?", "Esc"} THEN {toggle_help(app)} ELSE {app}
    ELSE CASE app.focus = "LogList" ->
                  handle_log_list_keys(app, key, page_height)
           [] app.focus = "FilterInput" ->
                  handle_filter_input_keys(app, db, key)
           [] app.focus = "FilterPresets" ->
                  handle_filter_presets_keys(app, db, key)


(***************************************************************************)
(* State.  db is the LogDatabase (held by main, then by the App); app is   *)
(* the App once pc = "run".  last records the latest call: its name, what  *)
(* of its argument the properties need, its Result and the statements it   *)
(* sent to the store.  merge_in and merge_out are the arguments and the    *)
(* results of FieldType::merge in MergeSpec; input and output are the      *)
(* argument and the result of the function a harness specification applies *)
(* (NormalizeSpec, SchemaSpec, MarshalSpec).                               *)
(***************************************************************************)
VARIABLES db, app, pc, last, merge_in, merge_out, input, output

vars == <<db, app, pc, last, merge_in, merge_out, input, output>>

NoCall == [op |-> "none", arg |-> <<>>, ret |-> Ok(<<>>), sent |-> <<>>]
Call(op, arg, ret, sent) ==
    [op |-> op, arg |-> arg, ret |-> ret, sent |-> sent]

NoMerge == [ab |-> "none", ba |-> "none", ab_c |-> "none", a_bc |-> "none"]

NoInput == <<>>
NoOutput == [fn |-> "none", ret |-> <<>>]
Output(fn, ret) == [fn |-> fn, ret |-> ret]

(***************************************************************************)
(* Spec: the LogDatabase API, from LogDatabase::new_in_memory on.          *)
(***************************************************************************)
Init ==
    /\ db = LogDatabase_new_in_memory
    /\ app = App_new(<<>>, <<>>)
    /\ pc = "load"
    /\ last = NoCall
    /\ merge_in = <<"Text", "Text", "Text">>
    /\ merge_out = NoMerge
    /\ input = NoInput
    /\ output = NoOutput

CreateTable ==
    /\ \E logs \in Batches, sample_size \in 0..MaxBatch :
          LET r == create_table_from_logs(db, logs, sample_size)
          IN  /\ db' = r.self
              /\ last' = Call("create_table_from_logs", <<>>, r.ret, r.sent)
    /\ UNCHANGED <<app, pc, merge_in, merge_out, input, output>>

InsertLog ==
    /\ Len(db.conn.rows) < MaxRows
    /\ \E log \in Pool :
          LET r == insert_log(db, log)
          IN  /\ db' = r.self
              /\ last' = Call("insert_log", log, r.ret, r.sent)
    /\ UNCHANGED <<app, pc, merge_in, merge_out, input, output>>

InsertLogs ==
    /\ \E logs \in Batches :
          /\ Len(db.conn.rows) + Len(logs) <= MaxRows
          /\ LET r == insert_logs(db, logs)
             IN  /\ db' = r.self
                 /\ last' = Call("insert_logs", logs, r.ret, r.sent)
    /\ UNCHANGED <<app, pc, merge_in, merge_out, input, output>>

CountLogs ==
    /\ last' = Call("count_logs", <<>>, count_logs(db), <<"SELECT">>)
    /\ UNCHANGED <<db, app, pc, merge_in, merge_out, input, output>>

QueryLogs ==
    /\ \E where_clause \in {None} \cup {Some(t) : t \in FilterTexts} :
          LET r == query_logs(db, where_clause)
          IN  last' = Call("query_logs", where_clause, r.ret, r.sent)
    /\ UNCHANGED <<db, app, pc, merge_in, merge_out, input, output>>

Next ==
    \/ CreateTable
    \/ InsertLog
    \/ InsertLogs
    \/ CountLogs
    \/ QueryLogs

Spec == Init /\ [][Next]_vars

(***************************************************************************)
(* AppSpec: the App in main's event loop.  It starts where main enters     *)
(* run_app: the logs are loaded (not empty), the table is created from     *)
(* the first SampleSize of them, all are inserted, and App::new(db, logs)  *)
(* has succeeded.                                                          *)
(***************************************************************************)
SampleSize == 100

MainLoaded(logs) ==
    LET created == create_table_from_logs(LogDatabase_new_in_memory, logs,
                                          SampleSize)
        inserted == insert_logs(created.self, logs)
    IN  [ok |-> created.ret.ok /\ inserted.ret.ok /\
                get_schema(inserted.self).ok,
         db |-> inserted.self]

AppInit ==
    /\ \E logs \in Batches :
          /\ logs # <<>>
          /\ MainLoaded(logs).ok
          /\ db = MainLoaded(logs).db
          /\ app = App_new(logs, get_schema(MainLoaded(logs).db).val)
    /\ pc = "run"
    /\ last = NoCall
    /\ merge_in = <<"Text", "Text", "Text">>
    /\ merge_out = NoMerge
    /\ input = NoInput
    /\ output = NoOutput

\* Keys passed to the TextArea leave some text in the input.
FilterInputEdit ==
    /\ \E text \in FilterTexts :
          app' = [app EXCEPT !.filter_input = TextArea_from(text)]
    /\ last' = Call("filter_input.input", <<>>, Ok(<<>>), <<>>)
    /\ UNCHANGED <<db, pc, merge_in, merge_out, input, output>>

ApplyFilter ==
    /\ LET r == apply_filter(app, db)
       IN  /\ app' = r.self
           /\ last' = Call("apply_filter", JoinLines(app.filter_input),
                           r.ret, r.sent)
    /\ UNCHANGED <<db, pc, merge_in, merge_out, input, output>>

ApplyPresetFilter ==
    /\ \E filter \in Presets :
          LET r == apply_preset_filter(app, db, filter)
          IN  /\ app' = r.self
              /\ last' = Call("apply_preset_filter", filter, r.ret, r.sent)
    /\ UNCHANGED <<db, pc, merge_in, merge_out, input, output>>

ClearFilter ==
    /\ app' = clear_filter(app)
    /\ last' = Call("clear_filter", <<>>, Ok(<<>>), <<>>)
    /\ UNCHANGED <<db, pc, merge_in, merge_out, input, output>>

MoveDown ==
    /\ app' = move_down(app)
    /\ last' = Call("move_down", <<>>, Ok(<<>>), <<>>)
    /\ UNCHANGED <<db, pc, merge_in, merge_out, input, output>>

MoveUp ==
    /\ app' = move_up(app)
    /\ last' = Call("move_up", <<>>, Ok(<<>>), <<>>)
    /\ UNCHANGED <<db, pc, merge_in, merge_out, input, output>>

AppNext ==
    \/ QueryLogs
    \/ FilterInputEdit
    \/ ApplyFilter
    \/ ApplyPresetFilter
    \/ ClearFilter
    \/ MoveDown
    \/ MoveUp

AppSpec == AppInit /\ [][AppNext]_vars

(***************************************************************************)
(* MergeSpec: FieldType::merge on every triple of column types.            *)
(***************************************************************************)
MergeInit ==
    /\ db = LogDatabase_new_in_memory
    /\ app = App_new(<<>>, <<>>)
    /\ pc = "merge"
    /\ last = NoCall
    /\ merge_in \in FieldType \X FieldType \X FieldType
    /\ merge_out = NoMerge
    /\ input = NoInput
    /\ output = NoOutput

Merge ==
    /\ merge_out = NoMerge
    /\ LET a == merge_in[1]
           b == merge_in[2]
           c == merge_in[3]
       IN  merge_out' = [ab |-> merge(a, b),
                         ba |-> merge(b, a),
                         ab_c |-> merge(merge(a, b), c),
                         a_bc |-> merge(a, merge(b, c))]
    /\ UNCHANGED <<db, app, pc, last, merge_in, input, output>>

MergeNext == Merge

MergeSpec == MergeInit /\ [][MergeNext]_vars


(***************************************************************************)
(* NormalizeSpec: normalize_field_name on the raw names of a record.       *)
(***************************************************************************)
RawNames ==
    {"msg", "lvl", "timestamp", "message", "level", "time", "id", "a",
     "tags", "MSG", "severity", "messages", ""}

NormalizeInit ==
    /\ db = LogDatabase_new_in_memory
    /\ app = App_new(<<>>, <<>>)
    /\ pc = "normalize"
    /\ last = NoCall
    /\ merge_in = <<"Text", "Text", "Text">>
    /\ merge_out = NoMerge
    /\ input \in UNION {[1..n -> RawNames] : n \in 0..MaxNames}
    /\ output = NoOutput

\* once is the normalized name, twice the normalized name normalized again.
Normalize ==
    /\ output = NoOutput
    /\ output' = Output("normalize_field_name",
                        [i \in 1..Len(input) |->
                            [once |-> normalize_field_name(input[i]),
                             twice |-> normalize_field_name(
                                          normalize_field_name(input[i]))]])
    /\ UNCHANGED <<db, app, pc, last, merge_in, merge_out, input>>

NormalizeNext == Normalize

NormalizeSpec == NormalizeInit /\ [][NormalizeNext]_vars


(***************************************************************************)
(* SchemaSpec: SchemaBuilder::new().analyze_logs on a sample set and on a  *)
(* rearrangement of it: the records in another order, the fields of each   *)
(* record in another iteration order.                                      *)
(***************************************************************************)
SchemaPool ==
    {LogInfo, LogError, LogNullLevel, LogFloatLevel, LogTags, LogBothLevels,
     LogBothMessages, LogWholeFloat, LogFlags, LogBigCount}

SampleSets == UNION {[1..n -> SchemaPool] : n \in 0..MaxBatch}

Perms(n) == {p \in [1..n -> 1..n] : \A i, j \in 1..n : p[i] = p[j] => i = j}

\* The iteration orders a HashMap may give the fields of a record.
Reorderings(log) ==
    {[i \in 1..Len(log) |-> log[p[i]]] : p \in Perms(Len(log))}

Rearrangements(logs) ==
    LET n == Len(logs)
    IN  {o \in [1..n -> UNION {Reorderings(logs[i]) : i \in 1..n}] :
            \E p \in Perms(n) :
                \A i \in 1..n : o[i] \in Reorderings(logs[p[i]])}

SchemaInit ==
    /\ db = LogDatabase_new_in_memory
    /\ app = App_new(<<>>, <<>>)
    /\ pc = "schema"
    /\ last = NoCall
    /\ merge_in = <<"Text", "Text", "Text">>
    /\ merge_out = NoMerge
    /\ input \in SampleSets
    /\ output = NoOutput

AnalyzeLogs ==
    /\ output = NoOutput
    /\ \E logs \in Rearrangements(input) :
          LET schema_builder == analyze_logs(SchemaBuilder_new, logs)
          IN  output' = Output("analyze_logs",
                               [logs |-> logs,
                                field_types |-> schema_builder,
                                field_names |-> field_names(schema_builder)])
    /\ UNCHANGED <<db, app, pc, last, merge_in, merge_out, input>>

SchemaNext == AnalyzeLogs

SchemaSpec == SchemaInit /\ [][SchemaNext]_vars


(***************************************************************************)
(* SessionSpec: the life of the table.  A behaviour is one of: the call of *)
(* create_table_from_logs on a new database with the arguments kept in     *)
(* input (pc = "create"); the LogDatabase API as in Spec (pc = "load");    *)
(* the App as in AppSpec (pc = "run").                                     *)
(***************************************************************************)
CreateInit ==
    /\ db = LogDatabase_new_in_memory
    /\ app = App_new(<<>>, <<>>)
    /\ pc = "create"
    /\ last = NoCall
    /\ merge_in = <<"Text", "Text", "Text">>
    /\ merge_out = NoMerge
    /\ input \in [logs : Batches, sample_size : 0..MaxBatch]
    /\ output = NoOutput

CreateTableFromLogs ==
    /\ pc = "create"
    /\ LET r == create_table_from_logs(db, input.logs, input.sample_size)
       IN  /\ db' = r.self
           /\ last' = Call("create_table_from_logs", <<>>, r.ret, r.sent)
    /\ UNCHANGED <<app, pc, merge_in, merge_out, input, output>>

SessionInit == CreateInit \/ Init \/ AppInit

SessionNext ==
    \/ CreateTableFromLogs
    \/ pc = "load" /\ Next
    \/ pc = "run" /\ AppNext

SessionSpec == SessionInit /\ [][SessionNext]_vars


(***************************************************************************)
(* MarshalSpec: extract_params_from_log on a database whose table was      *)
(* created from a sample set, for a record in some iteration order.        *)
(***************************************************************************)
MarshalPool ==
    UNION {Reorderings(log) : log \in SchemaPool} \cup
    {LogScalars, LogTextLevel}

MarshalInit ==
    /\ \E logs \in SampleSets :
          db = create_table_from_logs(LogDatabase_new_in_memory, logs,
                                      SampleSize).self
    /\ app = App_new(<<>>, <<>>)
    /\ pc = "marshal"
    /\ last = NoCall
    /\ merge_in = <<"Text", "Text", "Text">>
    /\ merge_out = NoMerge
    /\ input \in MarshalPool
    /\ output = NoOutput

ExtractParams ==
    /\ output = NoOutput
    /\ output' = Output("extract_params_from_log",
                        extract_params_from_log(db, input))
    /\ UNCHANGED <<db, app, pc, last, merge_in, merge_out, input>>

MarshalNext == ExtractParams

MarshalSpec == MarshalInit /\ [][MarshalNext]_vars


(***************************************************************************)
(* LoadSpec: main on a file of scalar, float and structured records, call  *)
(* by call: input is what load_logs returned (not empty); the table is     *)
(* created from its first SampleSize records, all of it is inserted, and   *)
(* the database is then queried, or handed to App::new.  A failed call     *)
(* ends main.                                                              *)
(***************************************************************************)
LoadPool ==
    {LogScalars, LogTags, LogFloatLevel, LogInfo, LogFlags, LogWholeFloat,
     LogBigCount, LogHalfCount}

LoadInit ==
    /\ db = LogDatabase_new_in_memory
    /\ app = App_new(<<>>, <<>>)
    /\ pc = "loaded"
    /\ last = NoCall
    /\ merge_in = <<"Text", "Text", "Text">>
    /\ merge_out = NoMerge
    /\ input \in UNION {[1..n -> LoadPool] : n \in 1..MaxBatch}
    /\ output = NoOutput

MainCreateTable ==
    /\ pc = "loaded"
    /\ LET r == create_table_from_logs(db, input, SampleSize)
       IN  /\ db' = r.self
           /\ last' = Call("create_table_from_logs", <<>>, r.ret, r.sent)
           /\ pc' = IF r.ret.ok THEN "created" ELSE "exit"
    /\ UNCHANGED <<app, merge_in, merge_out, input, output>>

MainInsertLogs ==
    /\ pc = "created"
    /\ LET r == insert_logs(db, input)
       IN  /\ db' = r.self
           /\ last' = Call("insert_logs", input, r.ret, r.sent)
           /\ pc' = IF r.ret.ok THEN "inserted" ELSE "exit"
    /\ UNCHANGED <<app, merge_in, merge_out, input, output>>

\* App::new(db, logs): field_schema is what get_schema returns.
MainAppNew ==
    /\ pc = "inserted"
    /\ LET r == get_schema(db)
       IN  /\ app' = IF r.ok THEN App_new(input, r.val) ELSE app
           /\ pc' = IF r.ok THEN "run" ELSE "exit"
    /\ UNCHANGED <<db, last, merge_in, merge_out, input, output>>

LoadNext ==
    \/ MainCreateTable
    \/ MainInsertLogs
    \/ pc = "inserted" /\ QueryLogs
    \/ MainAppNew

LoadSpec == LoadInit /\ [][LoadNext]_vars


(***************************************************************************)
(* ingestion/parser.rs and ingestion/reader.rs.  A file is the sequence of *)
(* its lines and the way it ends: "eof", or "error" when every read past   *)
(* the last line fails (the path names a directory, the device fails).  A  *)
(* line is [utf8, text]: text holds its tokens without the terminator,     *)
(* which read_line returns with the line and trim removes; utf8 is FALSE   *)
(* for a line whose bytes are not UTF-8, which read_line consumes and      *)
(* answers with an error.                                                  *)
(***************************************************************************)
MaxLines == 3
MaxEntries == 5

\* serde_json's reading of one scalar token of a JSON text.
JsonToken(tok) ==
    CASE tok = "null" -> Some(VNull)
      [] tok = "true" -> Some(VBool(TRUE))
      [] tok = "30" -> Some(VInt(30))
      [] tok = "42" -> Some(VInt(42))
      [] tok = "\"level\"" -> Some(VString("level"))
      [] tok = "\"msg\"" -> Some(VString("msg"))
      [] tok = "\"hello world\"" -> Some(VString("hello world"))
      [] OTHER -> None

\* HashMap::insert: the value of a key already present is replaced.
HashMap_insert(fields, key, value) ==
    IF \E j \in 1..Len(fields) : fields[j].name = key
    THEN [j \in 1..Len(fields) |->
             IF fields[j].name = key THEN Field(key, value) ELSE fields[j]]
    ELSE Append(fields, Field(key, value))

\* The members of a JSON object from token i on, where a key is expected,
\* up to the closing brace, which must end the text.
RECURSIVE JsonMembers(_, _, _)
JsonMembers(toks, i, fields) ==
    IF i + 3 > Len(toks) THEN None
    ELSE LET key == JsonToken(toks[i])
             value == JsonToken(toks[i + 2])
         IN  IF ~IsSome(key) \/ ~IsSome(value) \/ toks[i + 1] # ":"
             THEN None
             ELSE IF key[1].k # "String" THEN None
             ELSE LET inserted == HashMap_insert(fields, key[1].s, value[1])
                  IN  IF toks[i + 3] = ","
                      THEN JsonMembers(toks, i + 4, inserted)
                      ELSE IF toks[i + 3] = "}" /\ i + 3 = Len(toks)
                      THEN Some(inserted)
                      ELSE None

\* serde_json::from_str::<HashMap<String, Value>>: Some(fields) for the text
\* of one JSON object, None (an error) for any other text.
from_str(text) ==
    LET toks == SelectSeq(text, LAMBDA c : c # Whitespace)
    IN  IF toks = <<>> THEN None
        ELSE IF toks[1] # "{" THEN None
        ELSE IF Len(toks) = 2 /\ toks[2] = "}" THEN Some(<<>>)
        ELSE JsonMembers(toks, 2, <<>>)

\* The parser that takes the empty object for a record.
parse_json_line_accepts_empty(line) ==
    LET trimmed == Trim(line)
        fields == from_str(trimmed)
    IN  IF trimmed = <<>> THEN Err("Invalid log format: Empty line")
        ELSE IF ~IsSome(fields) THEN Err("Failed to parse JSON")
        ELSE Ok(fields[1])

parse_json_line(line) ==
    LET trimmed == Trim(line)
        fields == from_str(trimmed)
    IN  IF trimmed = <<>> THEN Err("Invalid log format: Empty line")
        ELSE IF ~IsSome(fields) THEN Err("Failed to parse JSON")
        ELSE IF fields[1] = <<>>
        THEN Err("Invalid log format: Empty JSON object")
        ELSE Ok(fields[1])

LogFileReader_new == [reader |-> 1, line_number |-> 0]

\* BufRead::read_line at position reader of the file: [ok, n, line, reader].
read_line(file, reader) ==
    IF reader <= Len(file.lines)
    THEN IF file.lines[reader].utf8
         THEN [ok |-> TRUE, n |-> Len(file.lines[reader].text) + 1,
               line |-> file.lines[reader].text, reader |-> reader + 1]
         ELSE [ok |-> FALSE, n |-> 0, line |-> <<>>, reader |-> reader + 1]
    ELSE IF file.end = "eof"
         THEN [ok |-> TRUE, n |-> 0, line |-> <<>>, reader |-> reader]
         ELSE [ok |-> FALSE, n |-> 0, line |-> <<>>, reader |-> reader]

Entry(line_number, result) == [line_number |-> line_number, result |-> result]

\* One iteration of read_logs's loop: the outcomes [self, logs, done], one
\* for each iteration order of the parsed record's HashMap.
read_logs_iteration(self, file, logs) ==
    LET r == read_line(file, self.reader)
        advanced == [reader |-> r.reader,
                     line_number |-> self.line_number + 1]
        parse_result == parse_json_line(r.line)
    IN  IF r.ok /\ r.n = 0
        THEN {[self |-> [self EXCEPT !.reader = r.reader], logs |-> logs,
               done |-> TRUE]}
        ELSE IF r.ok
        THEN IF parse_result.ok
             THEN {[self |-> advanced,
                    logs |-> Append(logs, Entry(advanced.line_number,
                                                Ok(log))),
                    done |-> FALSE] : log \in Reorderings(parse_result.val)}
             ELSE {[self |-> advanced,
                    logs |-> Append(logs, Entry(advanced.line_number,
                                                parse_result)),
                    done |-> FALSE]}
        ELSE {[self |-> advanced,
               logs |-> Append(logs, Entry(advanced.line_number,
                                           Err("Failed to read log file"))),
               done |-> FALSE]}

(***************************************************************************)
(* ReaderSpec: read_logs on a new LogFileReader, iteration by iteration.   *)
(* input is the file; output holds the reader and the entries collected so *)
(* far, and pc is "returned" once read_logs has returned them.             *)
(***************************************************************************)
Lines ==
    {[utf8 |-> TRUE, text |-> <<>>],
     [utf8 |-> TRUE, text |-> <<" ">>],
     [utf8 |-> TRUE, text |-> <<"not", " ", "json">>],
     [utf8 |-> TRUE, text |-> <<"42">>],
     [utf8 |-> TRUE, text |-> <<"{", " ", "}">>],
     [utf8 |-> TRUE, text |-> <<"{", "\"level\"", ":", "30">>],
     [utf8 |-> TRUE,
      text |-> <<" ", "{", "\"level\"", ":", "30", ",", " ", "\"msg\"", ":",
                 "\"hello world\"", "}", " ">>],
     [utf8 |-> TRUE,
      text |-> <<"{", "\"level\"", ":", "42", ",", "\"level\"", ":", "null",
                 "}">>],
     [utf8 |-> FALSE, text |-> <<>>]}

Files ==
    [lines : UNION {[1..n -> Lines] : n \in 0..MaxLines},
     end : {"eof", "error"}]

ReaderInit ==
    /\ db = LogDatabase_new_in_memory
    /\ app = App_new(<<>>, <<>>)
    /\ pc = "reading"
    /\ last = NoCall
    /\ merge_in = <<"Text", "Text", "Text">>
    /\ merge_out = NoMerge
    /\ input \in Files
    /\ output = Output("read_logs", [self |-> LogFileReader_new,
                                     logs |-> <<>>])

\* The entries are bounded by MaxEntries: on a file whose reads fail for
\* ever the loop goes on adding entries without end.
ReadLogs ==
    /\ pc = "reading"
    /\ output.ret.self.line_number < MaxEntries
    /\ \E r \in read_logs_iteration(output.ret.self, input, output.ret.logs) :
          /\ output' = Output("read_logs", [self |-> r.self, logs |-> r.logs])
          /\ pc' = IF r.done THEN "returned" ELSE "reading"
    /\ UNCHANGED <<db, app, last, merge_in, merge_out, input>>

ReaderNext == ReadLogs

ReaderSpec == ReaderInit /\ [][ReaderNext]_vars



(***************************************************************************)
(* ModelsSpec: the functions of ingestion/models.rs.  With pc = "levels"   *)
(* input is a code and two levels, and output the results of from_u64,     *)
(* as_u64 and the comparison.  With pc = "projections" input is a record   *)
(* of a file; main creates the table from it and inserts it, the record is *)
(* read back by query_logs without a filter, and output holds the typed    *)
(* projections of the record as ingested and as read back.                 *)
(***************************************************************************)
Codes == {0, 1, 9, 10, 11, 20, 25, 30, 40, 50, 59, 60, 61, 70, 266}

LogPino ==
    <<Field("level", VInt(30)), Field("time", VInt(7)),
      Field("msg", VString("hello world"))>>

LogAliases ==
    <<Field("lvl", VInt(40)), Field("timestamp", VInt(7)),
      Field("message", VString("boom"))>>

ProjectionPool ==
    UNION {Reorderings(log) : log \in {LogPino, LogAliases, LogInfo, LogError}}
    \cup {LogTextLevel, LogNullLevel, LogFloatLevel, LogBigCount}

Projections(log) ==
    [message |-> get_message(log),
     level_raw |-> get_level_raw(log),
     level |-> get_level(log),
     timestamp_ms |-> get_timestamp_ms(log)]

LevelsInit ==
    /\ db = LogDatabase_new_in_memory
    /\ app = App_new(<<>>, <<>>)
    /\ pc = "levels"
    /\ last = NoCall
    /\ merge_in = <<"Text", "Text", "Text">>
    /\ merge_out = NoMerge
    /\ input \in [level : Codes, l1 : LogLevel, l2 : LogLevel]
    /\ output = NoOutput

ProjectionsInit ==
    /\ db = LogDatabase_new_in_memory
    /\ app = App_new(<<>>, <<>>)
    /\ pc = "projections"
    /\ last = NoCall
    /\ merge_in = <<"Text", "Text", "Text">>
    /\ merge_out = NoMerge
    /\ input \in ProjectionPool
    /\ output = NoOutput

Levels ==
    /\ pc = "levels"
    /\ output = NoOutput
    /\ output' = Output("LogLevel",
                        [from_u64 |-> LogLevel_from_u64(input.level),
                         as_u64 |-> <<LogLevel_as_u64(input.l1),
                                      LogLevel_as_u64(input.l2)>>,
                         back |-> LogLevel_from_u64(
                                      LogLevel_as_u64(input.l1)),
                         lt |-> LogLevel_lt(input.l1, input.l2)])
    /\ UNCHANGED <<db, app, pc, last, merge_in, merge_out, input>>

ProjectRecord ==
    /\ pc = "projections"
    /\ output = NoOutput
    /\ LET created == create_table_from_logs(db, <<input>>, SampleSize).self
           inserted == insert_logs(created, <<input>>).self
           logs == query_logs(inserted, None).ret.val
       IN  /\ db' = inserted
           /\ output' = Output("JsonLog",
                               [ingested |-> Projections(input),
                                reconstructed |->
                                    [i \in 1..Len(logs) |->
                                        Projections(logs[i])]])
    /\ UNCHANGED <<app, pc, last, merge_in, merge_out, input>>

ModelsInit == LevelsInit \/ ProjectionsInit

ModelsNext == Levels \/ ProjectRecord

ModelsSpec == ModelsInit /\ [][ModelsNext]_vars



(***************************************************************************)
(* KeySpec: run_app's loop on the App main built for a file of two         *)
(* records: each step is one key event given to handle_key_event, until    *)
(* the App is told to quit.  last holds the key.                           *)
(***************************************************************************)
Keys ==
    {Key(code, "NONE") :
        code \in Chars \cup {"Esc", "Down", "Up", "PageDown", "PageUp",
                             "Enter", "Backspace", "Tab"}} \cup
    {Key(code, "CONTROL") : code \in {"d", "u", "f", "b", "g"}} \cup
    {Key(code, "SHIFT") : code \in {"G", "L"}}

PageHeights == {0, 3}

KeyInit ==
    /\ db = MainLoaded(<<LogInfo, LogError>>).db
    /\ app = App_new(<<LogInfo, LogError>>, get_schema(db).val)
    /\ pc = "run"
    /\ last = NoCall
    /\ merge_in = <<"Text", "Text", "Text">>
    /\ merge_out = NoMerge
    /\ input = NoInput
    /\ output = NoOutput

KeyEvent ==
    /\ ~app.should_quit
    /\ \E key \in Keys, page_height \in PageHeights :
          /\ app' \in handle_key_event(app, db, key, page_height)
          /\ last' = Call("handle_key_event", key, Ok(<<>>), <<>>)
    /\ UNCHANGED <<db, pc, merge_in, merge_out, input, output>>

KeyNext == KeyEvent

KeySpec == KeyInit /\ [][KeyNext]_vars


(***************************************************************************)
(* NavSpec: the App main built for a file, under any sequence of its       *)
(* navigation and filter operations, called directly.                      *)
(***************************************************************************)
NavFiles == {<<LogInfo, LogError, LogInfo>>, <<LogError>>}

NavInit ==
    /\ \E logs \in NavFiles :
          /\ db = MainLoaded(logs).db
          /\ app = App_new(logs, get_schema(MainLoaded(logs).db).val)
    /\ pc = "run"
    /\ last = NoCall
    /\ merge_in = <<"Text", "Text", "Text">>
    /\ merge_out = NoMerge
    /\ input = NoInput
    /\ output = NoOutput

JumpToFirst ==
    /\ app' = jump_to_first(app)
    /\ last' = Call("jump_to_first", <<>>, Ok(<<>>), <<>>)
    /\ UNCHANGED <<db, pc, merge_in, merge_out, input, output>>

JumpToLast ==
    /\ app' = jump_to_last(app)
    /\ last' = Call("jump_to_last", <<>>, Ok(<<>>), <<>>)
    /\ UNCHANGED <<db, pc, merge_in, merge_out, input, output>>

ScrollDownHalfPage ==
    /\ \E page_height \in PageHeights :
          app' = scroll_down_half_page(app, page_height)
    /\ last' = Call("scroll_down_half_page", <<>>, Ok(<<>>), <<>>)
    /\ UNCHANGED <<db, pc, merge_in, merge_out, input, output>>

ScrollUpHalfPage ==
    /\ \E page_height \in PageHeights :
          app' = scroll_up_half_page(app, page_height)
    /\ last' = Call("scroll_up_half_page", <<>>, Ok(<<>>), <<>>)
    /\ UNCHANGED <<db, pc, merge_in, merge_out, input, output>>

ScrollDownPage ==
    /\ \E page_height \in PageHeights :
          app' = scroll_down_page(app, page_height)
    /\ last' = Call("scroll_down_page", <<>>, Ok(<<>>), <<>>)
    /\ UNCHANGED <<db, pc, merge_in, merge_out, input, output>>

ScrollUpPage ==
    /\ \E page_height \in PageHeights :
          app' = scroll_up_page(app, page_height)
    /\ last' = Call("scroll_up_page", <<>>, Ok(<<>>), <<>>)
    /\ UNCHANGED <<db, pc, merge_in, merge_out, input, output>>

NavNext ==
    \/ MoveDown
    \/ MoveUp
    \/ JumpToFirst
    \/ JumpToLast
    \/ ScrollDownHalfPage
    \/ ScrollUpHalfPage
    \/ ScrollDownPage
    \/ ScrollUpPage
    \/ FilterInputEdit
    \/ ApplyFilter
    \/ ApplyPresetFilter
    \/ ClearFilter

NavSpec == NavInit /\ [][NavNext]_vars


(***************************************************************************)
(* Properties.                                                             *)
(***************************************************************************)
Text(self) == JoinLines(self.filter_input)

\* The filter state of the App: active filter, view mode, visible records,
\* error, selection.
FilterView(self) ==
    <<self.active_filter, self.view_mode, current_logs(self),
      self.filter_error, self.selected_index>>

FilterFields(self) ==
    <<self.active_filter, self.view_mode, self.filtered_logs,
      self.filter_error, self.selected_index>>

\* C1: insert_logs is all-or-nothing: a failed call leaves the table's rows
\* as they were before it; a successful one returns the length of the
\* batch and the table grows by exactly that many rows.
C1_BatchAllOrNothing ==
    [][last'.op = "insert_logs" =>
          IF last'.ret.ok
          THEN /\ last'.ret.val = Len(last'.arg)
               /\ Len(db'.conn.rows) = Len(db.conn.rows) + Len(last'.arg)
               /\ SubSeq(db'.conn.rows, 1, Len(db.conn.rows)) = db.conn.rows
          ELSE db'.conn.rows = db.conn.rows]_vars

\* A batch of two whose first row the store accepted and whose second row
\* it rejected has been rolled back.
C1_Witness ==
    /\ last.op = "insert_logs"
    /\ Len(last.arg) = 2
    /\ last.ret.err = ErrStore
    /\ last.sent = <<"BEGIN", "INSERT", "INSERT", "ROLLBACK">>

\* C2: when apply_filter or apply_preset_filter fails at the store,
\* filtered_logs, current_logs(), active_filter and view_mode are what they
\* were before the call and filter_error holds a non-empty message.
C2_FailedFilterKeepsResults ==
    [][(last'.op \in {"apply_filter", "apply_preset_filter"}
        /\ ~last'.ret.ok) =>
          /\ app'.filtered_logs = app.filtered_logs
          /\ current_logs(app') = current_logs(app)
          /\ app'.active_filter = app.active_filter
          /\ app'.view_mode = app.view_mode
          /\ app'.filter_error # None
          /\ app'.filter_error[1] # ""]_vars

\* A filter failed while an earlier filter's results were on display.
C2_Witness ==
    /\ last.op = "apply_filter"
    /\ ~last.ret.ok
    /\ app.view_mode = "Filtered"
    /\ app.filtered_logs # <<>>
    /\ app.filter_error # None

\* C3: after apply_filter with non-empty trimmed text T whose query
\* succeeds, active_filter = T, view_mode = Filtered, filtered_logs is what
\* the query returned, filter_error is None and selected_index is 0.
C3_AppliedState ==
    (last.op = "apply_filter" /\ last.ret.ok /\ Trim(last.arg) # <<>>) =>
        /\ app.active_filter = Some(Trim(last.arg))
        /\ app.view_mode = "Filtered"
        /\ query_logs(db, Some(Trim(last.arg))).ret.ok
        /\ app.filtered_logs = query_logs(db, Some(Trim(last.arg))).ret.val
        /\ app.filter_error = None
        /\ app.selected_index = 0

\* A padded text was applied, trimmed, and returned rows.
C3_Witness ==
    /\ last.op = "apply_filter"
    /\ last.ret.ok
    /\ last.arg # Trim(last.arg)
    /\ Trim(last.arg) # <<>>
    /\ app.filtered_logs # <<>>

\* C4: apply_filter on an empty or whitespace-only input leaves the filter
\* state that clear_filter would leave, and sends nothing to the store.
C4_BlankApplyIsClear ==
    [][(last'.op = "apply_filter" /\ Trim(Text(app)) = <<>>) =>
          /\ FilterView(app') = FilterView(clear_filter(app))
          /\ last'.sent = <<>>]_vars

\* A whitespace-only input was applied after a filter had been applied.
C4_Witness ==
    /\ last.op = "apply_filter"
    /\ last.arg = <<" ">>
    /\ app.filtered_logs # <<>>
    /\ app.view_mode = "AllLogs"

\* C5: clear_filter leaves active_filter = None, view_mode = AllLogs,
\* current_logs() the unfiltered all_logs, and filter_error = None.
C5_ClearRestoresAll ==
    [][last'.op = "clear_filter" =>
          /\ app'.active_filter = None
          /\ app'.view_mode = "AllLogs"
          /\ current_logs(app') = app.all_logs
          /\ app'.filter_error = None]_vars

\* clear_filter ran after a filter had been applied.
C5_Witness ==
    /\ last.op = "clear_filter"
    /\ app.filtered_logs # <<>>
    /\ app.view_mode = "AllLogs"

\* C6: apply_preset_filter(T) ends in the filter state, and with the
\* Result, of apply_filter on an input holding T.
C6_PresetIsApply ==
    [][last'.op = "apply_preset_filter" =>
          LET typed == [app EXCEPT !.filter_input = TextArea_from(last'.arg)]
          IN  /\ FilterFields(app') = FilterFields(apply_filter(typed, db).self)
              /\ last'.ret = apply_filter(typed, db).ret]_vars

\* A preset failed at the store while results of an earlier one were shown.
C6_Witness ==
    /\ last.op = "apply_preset_filter"
    /\ ~last.ret.ok
    /\ app.view_mode = "Filtered"
    /\ app.filtered_logs # <<>>

\* The store answered the trimmed input of the App with zero rows.
QueryMatchesNothing(self) ==
    /\ Trim(Text(self)) # <<>>
    /\ conn_query(db.conn, Some(Trim(Text(self)))).ok
    /\ conn_query(db.conn, Some(Trim(Text(self)))).rows = <<>>

\* C7 as stated: a filter that matches no row succeeds, records no error
\* and leaves the prior result (filtered_logs) as it was.
C7_EmptyResultKeepsPrior ==
    [][(last'.op = "apply_filter" /\ QueryMatchesNothing(app)) =>
          /\ last'.ret.ok
          /\ app'.filter_error = None
          /\ app'.filtered_logs = app.filtered_logs]_vars

\* C7 amended: a filter that matches no row succeeds, records no error,
\* and replaces the active result set like any successful filter:
\* filtered_logs becomes empty and is displayed; all_logs is not altered.
C7_EmptyResultIsSuccess ==
    [][(last'.op = "apply_filter" /\ QueryMatchesNothing(app)) =>
          /\ last'.ret.ok
          /\ app'.filter_error = None
          /\ app'.filtered_logs = <<>>
          /\ app'.view_mode = "Filtered"
          /\ app'.active_filter = Some(Trim(Text(app)))
          /\ app'.all_logs = app.all_logs]_vars

\* "level >= 999" was applied over loaded records and matched none.
C7_Witness ==
    /\ last.op = "apply_filter"
    /\ Trim(last.arg) = <<"level", " ", ">=", " ", "999">>
    /\ last.ret.ok
    /\ app.filtered_logs = <<>>
    /\ app.view_mode = "Filtered"
    /\ app.all_logs # <<>>

\* Whether an ingested record satisfies <column> <op> <literal>: its value
\* for the column is a number (or a text spelling one) in that relation.
RecordSatisfies(log, column, op, lit) ==
    LET value == FindField(log, column)
    IN  IF value = None THEN FALSE
        ELSE CASE value[1].k \in {"PosInt", "NegInt"} ->
                      Compare(op, value[1].i, lit)
               [] value[1].k = "Float" -> Compare(op, value[1].i, 4 * lit)
               [] value[1].k = "String" /\ value[1].s \in DOMAIN NumericText ->
                      Compare(op, NumericText[value[1].s], lit)
               [] OTHER -> FALSE

Positions(n) == [i \in 1..n |-> i]

\* C8: once the records are loaded, a comparison filter that the store
\* executes makes filtered_logs the stored rows that satisfy it, each once
\* and in table order; these are the rows of the ingested records that
\* satisfy it (row i is record i); query_logs(None) returns every stored
\* record.
C8_FilterSelectsExactly ==
    /\ (/\ last.op = "apply_filter"
        /\ last.ret.ok
        /\ IsComparison(SqlTokens(last.arg))) =>
          /\ \E k \in 1..Len(db.conn.columns) :
                db.conn.columns[k].name = SqlTokens(last.arg)[1]
          /\ LET toks == SqlTokens(last.arg)
                 lit == NumericText[toks[3]]
                 c == ColumnIndex(db.conn, toks[1])
                 stored == SelectSeq(Positions(Len(db.conn.rows)),
                             LAMBDA i : CellSatisfies(db.conn.rows[i][c],
                                                      toks[2], lit))
                 hits == SelectSeq(Positions(Len(app.all_logs)),
                             LAMBDA i : RecordSatisfies(app.all_logs[i],
                                            toks[1], toks[2], lit))
             IN  /\ app.filtered_logs =
                        [j \in 1..Len(stored) |->
                            RowToLog(ColumnNames(db.conn),
                                     db.conn.rows[stored[j]])]
                 /\ stored = hits
    /\ (last.op = "query_logs" /\ last.arg = None) =>
          /\ last.ret.ok
          /\ Len(db.conn.rows) = Len(app.all_logs)
          /\ last.ret.val =
                 [i \in 1..Len(db.conn.rows) |->
                     RowToLog(ColumnNames(db.conn), db.conn.rows[i])]

\* "level >= 40" over the records with level 30 and 50 returned the second.
C8_Witness ==
    /\ last.op = "apply_filter"
    /\ last.ret.ok
    /\ SqlTokens(last.arg) = <<"level", ">=", "40">>
    /\ app.all_logs = <<LogInfo, LogError>>
    /\ Len(app.filtered_logs) = 1
    /\ FindField(app.filtered_logs[1], "level") = Some(VInt(50))
    /\ FindField(app.filtered_logs[1], "message") = Some(VString("boom"))

\* C9: merge is commutative and associative over the five column types.
C9_MergeCommutativeAssociative ==
    merge_out # NoMerge =>
        /\ merge_out.ab = merge_out.ba
        /\ merge_out.ab_c = merge_out.a_bc

\* merge ran on Integer, Float, Boolean.
C9_Witness ==
    /\ merge_in = <<"Integer", "Float", "Boolean">>
    /\ merge_out.ab = "Float"
    /\ merge_out.ab_c = "Text"

\* C10: merge returns the type itself for two identical types, Float for
\* Integer with Float in either order, and Text for every other pair.
C10_MergeTable ==
    merge_out # NoMerge =>
        merge_out.ab =
            IF merge_in[1] = merge_in[2] THEN merge_in[1]
            ELSE IF {merge_in[1], merge_in[2]} = {"Integer", "Float"}
                 THEN "Float"
                 ELSE "Text"

\* merge ran on Float, Integer.
C10_Witness ==
    /\ merge_in[1] = "Float"
    /\ merge_in[2] = "Integer"
    /\ merge_out.ab = "Float"

\* C11: normalize_field_name is idempotent and defined on every name: msg,
\* lvl and timestamp become message, level and time, and every other name,
\* the canonical names included, is returned as it is.
C11_NormalizeIdempotent ==
    output.fn = "normalize_field_name" =>
        \A i \in 1..Len(input) :
            /\ output.ret[i].twice = output.ret[i].once
            /\ input[i] = "msg" => output.ret[i].once = "message"
            /\ input[i] = "lvl" => output.ret[i].once = "level"
            /\ input[i] = "timestamp" => output.ret[i].once = "time"
            /\ input[i] \notin {"msg", "lvl", "timestamp"} =>
                   output.ret[i].once = input[i]

\* An alias and a canonical name have been normalized.
C11_Witness ==
    /\ output.fn = "normalize_field_name"
    /\ input = <<"timestamp", "message">>
    /\ output.ret[1].once = "time"
    /\ output.ret[2].twice = "message"

\* C12: schema determinism: analyze_logs on the records of a sample set in
\* any order, with the fields of each record in any iteration order (records
\* holding two aliases of one column included), gives the same column type
\* for every canonical name and the same sorted list of field names.
C12_SchemaDeterminism ==
    output.fn = "analyze_logs" =>
        LET schema_builder == analyze_logs(SchemaBuilder_new, input)
        IN  /\ output.ret.field_types = schema_builder
            /\ output.ret.field_names = field_names(schema_builder)

\* An integer-valued record and one with both lvl and level (an integer and
\* a float) were analyzed in the other record order and field order.
C12_Witness ==
    /\ output.fn = "analyze_logs"
    /\ input = <<LogInfo, LogBothLevels>>
    /\ output.ret.logs =
          <<<<Field("level", VFloat(10)), Field("lvl", VInt(30))>>, LogInfo>>
    /\ output.ret.field_types["level"] = "Float"
    /\ output.ret.field_names = <<"level", "message">>

\* The column type of a JSON value.
Classified(value) ==
    CASE value.k = "Null" -> "Text"
      [] value.k = "Bool" -> "Boolean"
      [] value.k \in {"PosInt", "NegInt", "BigU64"} -> "Integer"
      [] value.k = "Float" -> "Float"
      [] value.k = "String" -> "Text"
      [] value.k = "Array" -> "Json"
      [] value.k = "Object" -> "Json"

\* The merge of a non-empty set of column types.
Merged(types) ==
    IF Cardinality(types) = 1 THEN CHOOSE t \in types : TRUE
    ELSE IF types \subseteq {"Integer", "Float"} THEN "Float"
    ELSE "Text"

Canonical(name) ==
    CASE name = "msg" -> "message"
      [] name = "lvl" -> "level"
      [] name = "timestamp" -> "time"
      [] OTHER -> name

\* The fields of all the records.
Entries(logs) ==
    UNION {{logs[i][j] : j \in 1..Len(logs[i])} : i \in 1..Len(logs)}

\* The values the records hold under a raw name whose canonical name is n.
ValuesOf(logs, n) ==
    {e.value : e \in {f \in Entries(logs) : Canonical(f.name) = n}}

\* C13: analyze_log classifies null as Text, a boolean as Boolean, a number
\* held as a signed or unsigned 64-bit integer as Integer and any other
\* number (2.0 included) as Float, a string as Text, an array or object as
\* Json, under the canonical field name: the type of a column is the merge
\* of the types of all the values seen under any of its aliases, and there
\* is exactly one column per canonical name.
C13_AnalyzeClassifies ==
    output.fn = "analyze_logs" =>
        LET field_types == output.ret.field_types
        IN  /\ DOMAIN field_types =
                  {Canonical(f.name) : f \in Entries(input)}
            /\ \A n \in DOMAIN field_types :
                  field_types[n] =
                      Merged({Classified(v) : v \in ValuesOf(input, n)})

\* Two records naming one column msg and message, a string and an integer:
\* a single Text column message.
C13_Witness ==
    /\ output.fn = "analyze_logs"
    /\ input = <<LogInfo, LogBothMessages>>
    /\ DOMAIN output.ret.field_types = {"level", "message"}
    /\ output.ret.field_types["message"] = "Text"
    /\ output.ret.field_types["level"] = "Integer"

\* The columns of the table a schema builder describes.
ColumnsOf(field_types) ==
    <<[name |-> "id", type |-> "INTEGER"]>> \o
    [i \in 1..Len(field_names(field_types)) |->
        [name |-> field_names(field_types)[i],
         type |-> to_sql(field_types[field_names(field_types)[i]])]]

\* C14: the schema is fixed by the sample prefix and frozen afterwards:
\* create_table_from_logs(logs, n) on a new database creates the columns that analysing the
\* first min(n, len(logs)) records gives, whatever the later records hold,
\* and once the table exists no call (insert_log, insert_logs, query_logs,
\* count_logs, apply_filter, clear_filter, nor any other operation of the
\* program) changes field_names or the table's columns.
C14_SchemaFromPrefixFrozen ==
    [][/\ (/\ pc = "create"
           /\ ~TableExists(db.conn)
           /\ last'.op = "create_table_from_logs") =>
             LET n == Min(input.sample_size, Len(input.logs))
                 prefix == analyze_logs(SchemaBuilder_new,
                                        SubSeq(input.logs, 1, n))
             IN  /\ last'.ret.ok
                 /\ db'.field_names = field_names(prefix)
                 /\ db'.conn.columns = ColumnsOf(prefix)
       /\ TableExists(db.conn) =>
             /\ db'.field_names = db.field_names
             /\ db'.conn.columns = db.conn.columns]_vars

\* A table created from the first of two records: the text level of the
\* second record has not made the column level a text column.
C14_Witness ==
    /\ pc = "create"
    /\ last.op = "create_table_from_logs"
    /\ input = [logs |-> <<LogInfo, LogTextLevel>>, sample_size |-> 1]
    /\ db.field_names = <<"level", "message">>
    /\ db.conn.columns[2] = [name |-> "level", type |-> "BIGINT"]

\* The place of a name in the lexicographic order of the names.
Place(name) == CHOOSE k \in 1..Len(NameOrder) : NameOrder[k] = name

\* The cells the store makes of a record: for each column after id, the
\* field whose canonical name is the column's name, converted and cast to
\* the column's type.
CastsOf(conn, log) ==
    [c \in 1..(Len(conn.columns) - 1) |->
        CastParam(ValueToParam(FindField(log, conn.columns[c + 1].name)),
                  conn.columns[c + 1].type)]

\* C15: the columns of the table after id (the order of the DDL), the
\* column list of the INSERT (field_names) and the positions of the
\* parameters of extract_params_from_log are one sequence of canonical
\* names in strictly increasing lexicographic order: there are as many
\* parameters as columns, and insert_log stores in each column the value of
\* the field of that name.
C15_OneColumnOrder ==
    [][/\ TableExists(db'.conn) =>
             /\ ColumnNames(db'.conn) = <<"id">> \o db'.field_names
             /\ \A i, j \in 1..Len(db'.field_names) :
                   i < j => Place(db'.field_names[i]) <
                            Place(db'.field_names[j])
       /\ (last'.op = "insert_log" /\ db.field_names # <<>>) =>
             LET params == extract_params_from_log(db, last'.arg)
                 casts == CastsOf(db.conn, last'.arg)
             IN  /\ Len(params) = Len(db.field_names)
                 /\ Len(params) = Len(db.conn.columns) - 1
                 /\ IF \A c \in 1..Len(casts) : casts[c].ok
                    THEN /\ last'.ret.ok
                         /\ Len(db'.conn.rows) = Len(db.conn.rows) + 1
                         /\ \A c \in 1..Len(casts) :
                               db'.conn.rows[Len(db'.conn.rows)][c + 1] =
                                   casts[c].cell
                    ELSE /\ ~last'.ret.ok
                         /\ db' = db]_vars

\* A record of level and msg was stored in the columns level and message.
C15_Witness ==
    /\ last.op = "insert_log"
    /\ last.arg = LogInfo
    /\ last.ret.ok
    /\ ColumnNames(db.conn) = <<"id", "level", "message">>
    /\ db.conn.rows[Len(db.conn.rows)][2] = PBigInt(30)
    /\ db.conn.rows[Len(db.conn.rows)][3] = PText("hello world")

\* The native parameter of a JSON value.
Converted(value) ==
    CASE value.k = "Null" -> [t |-> "NULL", i |-> 0, s |-> ""]
      [] value.k = "Bool" -> [t |-> "BOOLEAN", i |-> value.i, s |-> ""]
      [] value.k \in {"PosInt", "NegInt"} ->
            [t |-> "BIGINT", i |-> value.i, s |-> ""]
      [] value.k = "Float" -> [t |-> "DOUBLE", i |-> value.i, s |-> ""]
      [] value.k = "BigU64" -> [t |-> "DOUBLE", i |-> value.i, s |-> "2^63+"]
      [] value.k = "String" -> [t |-> "VARCHAR", i |-> 0, s |-> value.s]
      [] value.k \in {"Array", "Object"} ->
            [t |-> "VARCHAR", i |-> 0, s |-> value.s]

\* The record with every field under its canonical name.
Renamed(log) ==
    [j \in 1..Len(log) |-> Field(Canonical(log[j].name), log[j].value)]

\* C16: extract_params_from_log gives one parameter per schema column, in
\* order: NULL when no raw field of the record has the column as its
\* canonical name, else the conversion of the first such field in the
\* record's iteration order: null to NULL, a boolean to that boolean, a
\* number to the same 64-bit signed integer when it is one and to a double
\* otherwise, a string to itself, an array or object to its serialized
\* text.  A record naming a column by an alias gives the parameters of the
\* record that uses the canonical name.
C16_ParamsConversion ==
    output.fn = "extract_params_from_log" =>
        /\ Len(output.ret) = Len(db.field_names)
        /\ \A i \in 1..Len(db.field_names) :
              LET named == {j \in 1..Len(input) :
                              Canonical(input[j].name) = db.field_names[i]}
              IN  IF named = {}
                  THEN output.ret[i] = [t |-> "NULL", i |-> 0, s |-> ""]
                  ELSE output.ret[i] =
                         Converted(input[CHOOSE j \in named :
                                      \A k \in named : j <= k].value)
        /\ output.ret = extract_params_from_log(db, Renamed(input))

\* A record of level and msg marshalled for the columns level, message and
\* tags: an integer, the string under the alias, NULL.
C16_Witness ==
    /\ output.fn = "extract_params_from_log"
    /\ input = LogInfo
    /\ db.field_names = <<"level", "message", "tags">>
    /\ output.ret = <<PBigInt(30), PText("hello world"), PNull>>

\* The fields of a record whose canonical name is a column of the schema.
Known(self, log) ==
    SelectSeq(log, LAMBDA f :
        \E i \in 1..Len(self.field_names) :
            self.field_names[i] = Canonical(f.name))

\* The keys of the records an unfiltered query returns.
KeysRead(self) ==
    {{log[j].name : j \in 1..Len(log)} :
        log \in {query_logs(self, None).ret.val[n] :
                    n \in 1..Len(self.conn.rows)}}

\* C17: a field whose canonical name is no column of the frozen schema is
\* dropped without effect: insert_log and insert_logs return, send and
\* store what they do for the records without such fields; no column is
\* added; and every record an unfiltered query then returns has exactly
\* the schema's columns as its keys.
C17_UnknownFieldDropped ==
    [][/\ (last'.op = "insert_log" /\ db.field_names # <<>>) =>
             LET r == insert_log(db, Known(db, last'.arg))
             IN  /\ db' = r.self
                 /\ last'.ret = r.ret
                 /\ last'.sent = r.sent
       /\ (last'.op = "insert_logs" /\ db.field_names # <<>>) =>
             LET r == insert_logs(db, [n \in 1..Len(last'.arg) |->
                                         Known(db, last'.arg[n])])
             IN  /\ db' = r.self
                 /\ last'.ret = r.ret
                 /\ last'.sent = r.sent
       /\ (last'.op \in {"insert_log", "insert_logs"} /\ last'.ret.ok) =>
             /\ db'.conn.columns = db.conn.columns
             /\ query_logs(db', None).ret.ok
             /\ \A keys \in KeysRead(db') :
                   keys = {db.field_names[i] :
                             i \in 1..Len(db.field_names)}]_vars

\* A record of level and msg was inserted into a table whose only column
\* is level, and is read back with the key level alone.
C17_Witness ==
    /\ last.op = "insert_log"
    /\ last.arg = LogInfo
    /\ last.ret.ok
    /\ db.field_names = <<"level">>
    /\ query_logs(db, None).ret.val[Len(db.conn.rows)] =
          <<Field("level", VInt(30))>>

\* C18: on a database whose table was never created (no call of
\* create_table_from_logs has succeeded), insert_log and insert_logs return
\* the "table not created yet" error for every record and every batch, the
\* empty batch included, send no statement to the store (no BEGIN, no
\* INSERT) and leave the database as it was.
C18_InsertBeforeCreate ==
    [][(last'.op \in {"insert_log", "insert_logs"}
           /\ ~TableExists(db.conn)) =>
          /\ ~last'.ret.ok
          /\ last'.ret.err = ErrNotCreated
          /\ last'.sent = <<>>
          /\ db' = db]_vars

\* The empty batch was refused on a new database.
C18_Witness ==
    /\ last.op = "insert_logs"
    /\ last.arg = <<>>
    /\ ~TableExists(db.conn)
    /\ last.ret = Err(ErrNotCreated)
    /\ last.sent = <<>>

\* The value of a key in a record; None when the record has no such key.
ValueAt(log, name) ==
    LET hits == SelectSeq(log, LAMBDA f : f.name = name)
    IN  IF hits = <<>> THEN None ELSE Some(hits[1].value)

\* Equal as scalars of the same kind, or a float without fraction read
\* back as that integer.
ScalarEqual(stored, back) ==
    \/ back = stored
    \/ /\ stored.k = "Float"
       /\ stored.i % 4 = 0
       /\ back = VInt(stored.i \div 4)

\* C19: scalar round trip: when the record {"a":1,"b":2.5,"c":true,"d":"x"}
\* is the sample and is inserted, query_logs(None) returns for it a record
\* with exactly the keys a, b, c, d whose values are scalar-equal to the
\* original ones and of the same kind; the only difference allowed is a
\* float without fraction read back as an integer.
C19_ScalarRoundTrip ==
    (/\ last.op = "query_logs"
     /\ last.arg = None
     /\ last.ret.ok
     /\ \A n \in 1..Len(input) : input[n] = LogScalars) =>
        /\ Len(last.ret.val) = Len(input)
        /\ \A n \in 1..Len(input) :
              /\ {last.ret.val[n][j].name : j \in 1..Len(last.ret.val[n])} =
                    {"a", "b", "c", "d"}
              /\ \A j \in 1..Len(LogScalars) :
                    /\ IsSome(ValueAt(last.ret.val[n], LogScalars[j].name))
                    /\ ScalarEqual(LogScalars[j].value,
                                   ValueAt(last.ret.val[n],
                                           LogScalars[j].name)[1])

\* The record was read back with b = 2, an integer: the column b is DOUBLE
\* and holds 2.5, and the integer probe comes before the double probe.
C19_FractionLost ==
    /\ last.op = "query_logs"
    /\ last.arg = None
    /\ input = <<LogScalars>>
    /\ db.conn.rows[1][3] = PDouble(10, "")
    /\ last.ret.val =
          <<<<Field("a", VInt(1)), Field("b", VInt(2)),
              Field("c", VBool(TRUE)), Field("d", VString("x"))>>>>

\* The value query_logs makes of a cell, by what the cell holds: a text is
\* a string; a 64-bit integer is that integer; a double within the 64-bit
\* signed range is an integer, its value without the fraction; a double
\* beyond that range is a float; a boolean is a boolean; NULL is null.
Probed(cell) ==
    CASE cell.t = "VARCHAR" -> [k |-> "String", i |-> 0, s |-> cell.s]
      [] cell.t \in {"BIGINT", "INTEGER"} ->
            [k |-> IF cell.i < 0 THEN "NegInt" ELSE "PosInt",
             i |-> cell.i, s |-> ""]
      [] cell.t = "DOUBLE" /\ cell.s = "" ->
            LET whole == IF cell.i >= 0 THEN cell.i \div 4
                         ELSE -((-cell.i) \div 4)
            IN  [k |-> IF whole < 0 THEN "NegInt" ELSE "PosInt",
                 i |-> whole, s |-> ""]
      [] cell.t = "DOUBLE" /\ cell.s # "" ->
            [k |-> "Float", i |-> cell.i, s |-> cell.s]
      [] cell.t = "BOOLEAN" -> [k |-> "Bool", i |-> cell.i, s |-> ""]
      [] cell.t = "NULL" -> [k |-> "Null", i |-> 0, s |-> ""]

\* The record of a row: one key per column after id, in column order.
Reconstructed(conn, row) ==
    [c \in 1..(Len(conn.columns) - 1) |->
        Field(conn.columns[c + 1].name, Probed(row[c + 1]))]

\* C20: query_logs reconstructs every returned row by probing each cell as
\* string, integer, double, boolean, else null and taking the first value
\* the store yields, whatever the column's inferred type: a value without
\* fraction in a Float column is an integer, a Json column is the
\* serialized text as a string; id is never a key.  An unfiltered query
\* returns the records of all rows in table order.
C20_ProbeOrder ==
    (last.op = "query_logs" /\ last.ret.ok) =>
        /\ ColumnNames(db.conn)[1] = "id"
        /\ \A n \in 1..Len(last.ret.val) :
              /\ \A j \in 1..Len(last.ret.val[n]) :
                    last.ret.val[n][j].name # "id"
              /\ \E r \in 1..Len(db.conn.rows) :
                    last.ret.val[n] = Reconstructed(db.conn, db.conn.rows[r])
        /\ last.arg = None =>
              last.ret.val = [r \in 1..Len(db.conn.rows) |->
                                 Reconstructed(db.conn, db.conn.rows[r])]

\* A file of {"level":40,"tags":[1,2]} and {"level":2.0} was loaded and
\* read back: level is a Float column and tags a Json column; 40.0 and 2.0
\* come back as the integers 40 and 2, the array as its text.
C20_Witness ==
    /\ last.op = "query_logs"
    /\ last.ret.ok
    /\ input = <<LogTags, LogWholeFloat>>
    /\ db.conn.columns =
          <<[name |-> "id", type |-> "INTEGER"],
            [name |-> "level", type |-> "DOUBLE"],
            [name |-> "tags", type |-> "TEXT"]>>
    /\ db.conn.rows[1][2] = PDouble(160, "")
    /\ last.ret.val =
          <<<<Field("level", VInt(40)), Field("tags", VString("[1,2]"))>>,
            <<Field("level", VInt(2)), Field("tags", VNull)>>>>


\* What a line of the pool holds: a record's fields, or nothing a record can
\* be read from (a blank line, text that is no JSON, JSON that is no object,
\* the object without fields, bytes that are no text).
LineInfo ==
    <<" ", "{", "\"level\"", ":", "30", ",", " ", "\"msg\"", ":",
      "\"hello world\"", "}", " ">>

LineTwice ==
    <<"{", "\"level\"", ":", "42", ",", "\"level\"", ":", "null", "}">>

HoldsRecord(line) == line.utf8 /\ line.text \in {LineInfo, LineTwice}

FieldsOf(line) ==
    IF line.text = LineInfo
    THEN {Field("level", VInt(30)), Field("msg", VString("hello world"))}
    ELSE {Field("level", VNull)}

\* C21: read_logs returns one entry for each line of the input, in source
\* order and numbered from 1; the entry of a line that is blank, is not
\* parseable, is not a JSON object or is the object without fields is an
\* error, the entry of any other line is the record parsed from it, also
\* when lines before it have failed.
C21_EntryPerLine ==
    pc = "returned" =>
        LET logs == output.ret.logs
            lines == input.lines
        IN  /\ Len(logs) = Len(lines)
            /\ \A i \in 1..Len(lines) :
                  /\ logs[i].line_number = i
                  /\ logs[i].result.ok = HoldsRecord(lines[i])
                  /\ HoldsRecord(lines[i]) =>
                        /\ Len(logs[i].result.val) =
                               Cardinality(FieldsOf(lines[i]))
                        /\ {logs[i].result.val[j] :
                               j \in 1..Len(logs[i].result.val)} =
                               FieldsOf(lines[i])

\* read_logs has returned for a file of three lines, of which the first is
\* cut short, the second holds a record and the third is the empty object.
C21_Witness ==
    /\ pc = "returned"
    /\ Len(input.lines) = 3
    /\ input.lines[1].text = <<"{", "\"level\"", ":", "30">>
    /\ input.lines[2].text = LineInfo
    /\ input.lines[3].text = <<"{", " ", "}">>
    /\ ~output.ret.logs[1].result.ok
    /\ output.ret.logs[2].result.ok
    /\ output.ret.logs[2].result.val[1].name = "msg"
    /\ output.ret.logs[3].result.err = "Invalid log format: Empty JSON object"



\* C28: read_logs runs to completion: every iteration of its loop either
\* returns or has consumed input, also when the read fails, so that the same
\* failing read is not made again and the end of the input is reached.
C28_IterationConsumes ==
    [][pc' = "reading" =>
          output'.ret.self.reader > output.ret.self.reader]_vars

\* The reads past the last line fail, and read_logs, still in its loop, has
\* recorded the failure of that same read twice.
C28_SameReadFailsAgain ==
    /\ pc = "reading"
    /\ input.end = "error"
    /\ output.ret.self.reader = Len(input.lines) + 1
    /\ Len(output.ret.logs) = Len(input.lines) + 2
    /\ \A i \in 1..2 :
          output.ret.logs[Len(input.lines) + i].result.err =
              "Failed to read log file"



\* C22: from_u64 returns Trace, Debug, Info, Warn, Error, Fatal for 10, 20,
\* 30, 40, 50, 60 and None for every other code; from_u64(l.as_u64()) is l
\* for every level l; and l1 < l2 exactly when l1.as_u64() < l2.as_u64(),
\* which orders the levels from Trace up to Fatal.
C22_LevelScale ==
    pc = "levels" /\ output # NoOutput =>
        LET Scale == <<"Trace", "Debug", "Info", "Warn", "Error", "Fatal">>
            Rank(l) == CHOOSE k \in 1..6 : Scale[k] = l
            r == output.ret
        IN  /\ \A k \in 1..6 : input.level = 10 * k => r.from_u64 = <<Scale[k]>>
            /\ input.level \notin {10 * k : k \in 1..6} => r.from_u64 = <<>>
            /\ r.back = <<input.l1>>
            /\ r.lt = (r.as_u64[1] < r.as_u64[2])
            /\ r.lt = (Rank(input.l1) < Rank(input.l2))

\* from_u64 has answered None for the code 70, and Warn is below Error.
C22_Witness ==
    /\ pc = "levels"
    /\ input = [level |-> 70, l1 |-> "Warn", l2 |-> "Error"]
    /\ output # NoOutput
    /\ output.ret.from_u64 = <<>>
    /\ output.ret.back = <<"Warn">>
    /\ output.ret.lt



\* C23: the typed projections follow the aliases: for a record that carries
\* its message, severity or timestamp under any alias, get_message,
\* get_level_raw and get_timestamp_ms return that value, and the record read
\* back by query_logs has the message projection of the record ingested.
C23_ProjectionsFollowAliases ==
    pc = "projections" /\ output # NoOutput =>
        /\ \A j \in 1..Len(input) :
              LET name == Canonical(input[j].name)
                  value == input[j].value
                  got == output.ret.ingested
              IN  /\ name = "message" /\ value.k = "String" =>
                        got.message = <<value.s>>
                  /\ name = "level" /\ value.k = "PosInt" =>
                        got.level_raw = <<[big |-> FALSE, n |-> value.i]>>
                  /\ name = "time" /\ value.k \in {"PosInt", "NegInt"} =>
                        got.timestamp_ms = <<value.i>>
        /\ \A i \in 1..Len(output.ret.reconstructed) :
              output.ret.reconstructed[i].message =
                  output.ret.ingested.message

\* The record ingested with the key msg has its message; read back by
\* query_logs, under the key message, it has none.
C23_MessageLost ==
    /\ pc = "projections"
    /\ input = LogPino
    /\ output # NoOutput
    /\ output.ret.ingested.message = <<"hello world">>
    /\ Len(output.ret.reconstructed) = 1
    /\ output.ret.reconstructed[1].message = <<>>
    /\ output.ret.reconstructed[1].timestamp_ms = <<7>>
    /\ output.ret.reconstructed[1].level = <<"Info">>



\* C24: the schema App::new takes from get_schema lists exactly the columns
\* inferred from the records, the id column left out, each with the type
\* inference gave it, whichever of the five types that is.
C24_SchemaListsInferredTypes ==
    pc = "run" /\ input # NoInput =>
        LET inferred == analyze_logs(SchemaBuilder_new, input)
            listed == app.field_schema
        IN  /\ Len(listed) = Cardinality(DOMAIN inferred)
            /\ {listed[i] : i \in 1..Len(listed)} =
                   {<<name, inferred[name]>> : name \in DOMAIN inferred}

\* The table was created from a record whose tags field is an array,
\* inferred as Json, and the schema of the App lists tags as Text.
C24_JsonListedAsText ==
    /\ pc = "run"
    /\ input = <<LogTags>>
    /\ analyze_logs(SchemaBuilder_new, input)["tags"] = "Json"
    /\ app.field_schema = <<<<"level", "Integer">>, <<"tags", "Text">>>>



\* What the help menu documents for a key pressed while the log list has
\* the focus, under Navigation and Actions, the key L left aside.
Documented(self, key, page_height) ==
    LET code == key.code
        none == key.modifiers = "NONE"
        control == key.modifiers = "CONTROL"
    IN  CASE code \in {"j", "Down"} -> move_down(self)
          [] code \in {"k", "Up"} -> move_up(self)
          [] code = "g" /\ none -> jump_to_first(self)
          [] code = "G" -> jump_to_last(self)
          [] code = "d" /\ control -> scroll_down_half_page(self, page_height)
          [] code = "u" /\ control -> scroll_up_half_page(self, page_height)
          [] code = "f" /\ control -> scroll_down_page(self, page_height)
          [] code = "b" /\ control -> scroll_up_page(self, page_height)
          [] code = "d" /\ none -> toggle_detail_panel(self)
          [] code = "f" /\ none -> toggle_filter_panel(self)
          [] code = "/" -> focus_filter(self)
          [] code = "c" -> clear_filter(self)
          [] code = "?" -> toggle_help(self)
          [] code \in {"q", "Esc"} -> quit(self)

\* The keys the help menu lists under Navigation and Actions, but L.
Listed(key) ==
    \/ key.code \in {"j", "Down", "k", "Up", "G", "/", "c", "?", "q", "Esc"}
    \/ key.code \in {"g", "d", "f"} /\ key.modifiers = "NONE"
    \/ key.code \in {"d", "u", "f", "b"} /\ key.modifiers = "CONTROL"

\* C25: a key pressed while the log list has the focus and the help menu is
\* closed does what the help menu documents for it: L flips
\* show_debug_logs, and every other key of Navigation and Actions triggers
\* its operation.
C25_KeysAsDocumented ==
    [][last'.op = "handle_key_event" /\ ~app.show_help /\
       app.focus = "LogList" =>
          /\ last'.arg.code = "L" =>
                app'.show_debug_logs = ~app.show_debug_logs
          /\ Listed(last'.arg) =>
                \E page_height \in PageHeights :
                    app' = Documented(app, last'.arg, page_height)]_vars

\* L was pressed with the log list in focus and the help menu closed, and
\* show_debug_logs is as App::new set it.
C25_DebugPanelStaysClosed ==
    /\ last.op = "handle_key_event"
    /\ last.arg = Key("L", "SHIFT")
    /\ app.focus = "LogList"
    /\ ~app.show_help
    /\ ~app.show_debug_logs



\* C26: once create_table_from_logs has returned success, whatever its logs
\* and sample_size, no insert_log or insert_logs returns the error of the
\* table not created yet; and a create_table_from_logs that fails leaves
\* field_names as it was.
C26_CreatedMeansInsertable ==
    [][/\ TableExists(db.conn) /\ last'.op \in {"insert_log", "insert_logs"}
          => ~(~last'.ret.ok /\ last'.ret.err = ErrNotCreated)
       /\ last'.op = "create_table_from_logs" /\ ~last'.ret.ok
          => db'.field_names = db.field_names]_vars

\* create_table_from_logs succeeded on an empty sample: the table exists
\* with its id column alone, field_names is empty, and an insert has been
\* answered with the error of the table not created yet.
C26_CreatedButRefused ==
    /\ TableExists(db.conn)
    /\ ColumnNames(db.conn) = <<"id">>
    /\ db.field_names = <<>>
    /\ last.op = "insert_log"
    /\ ~last.ret.ok
    /\ last.ret.err = ErrNotCreated



\* The value a record gives to column i of the schema: that of the first
\* entry, in iteration order, named for the column; None when there is none.
Given(self, log, i) ==
    LET named == {j \in 1..Len(log) :
                     Canonical(log[j].name) = self.field_names[i]}
    IN  IF named = {} THEN None
        ELSE Some(log[CHOOSE j \in named : \A k \in named : j <= k].value)

\* C29: every JSON number detect_field_type classifies as Integer, the
\* unsigned values above the signed 64-bit maximum included, is bound by
\* extract_params_from_log as an integer of the same value, and every number
\* bound as a double was classified Float.
C29_IntegerBoundAsInteger ==
    output.fn = "extract_params_from_log" =>
        \A i \in 1..Len(db.field_names) :
            LET given == Given(db, input, i)
            IN  IsSome(given) /\
                given[1].k \in {"PosInt", "NegInt", "BigU64", "Float"} =>
                   /\ detect_field_type(given[1]) = "Integer" =>
                         /\ output.ret[i].t = "BIGINT"
                         /\ output.ret[i].i = given[1].i
                   /\ output.ret[i].t = "DOUBLE" =>
                         detect_field_type(given[1]) = "Float"

\* The record whose count is 2^63, classified Integer, marshalled for the
\* BIGINT column a: the parameter is a double.
C29_BigCountBoundAsDouble ==
    /\ output.fn = "extract_params_from_log"
    /\ input = LogBigCount
    /\ db.field_names = <<"a">>
    /\ db.conn.columns[2] = [name |-> "a", type |-> "BIGINT"]
    /\ detect_field_type(input[1].value) = "Integer"
    /\ output.ret = <<PDouble(0, "2^63+")>>



\* C30: two records that are equal as mappings from field name to value
\* give the same parameter list, also when two raw names of the record
\* canonicalize to the same column: the list does not depend on the order
\* in which the record's fields are iterated.
C30_OrderIndependent ==
    output.fn = "extract_params_from_log" =>
        \A other \in Reorderings(input) :
            extract_params_from_log(db, other) = output.ret

\* The record with msg and message, iterated msg first, stores the text in
\* the column message; iterated message first, it stores the number.
C30_AliasOrderDecides ==
    /\ output.fn = "extract_params_from_log"
    /\ input = LogBothMessages
    /\ db.field_names = <<"message">>
    /\ output.ret = <<PText("hello world")>>
    /\ <<input[2], input[1]>> \in Reorderings(input)
    /\ extract_params_from_log(db, <<input[2], input[1]>>) = <<PBigInt(-1)>>



\* C27: after any sequence of moves, jumps, page scrolls, filter
\* applications (successful or failed), presets and clears from App::new,
\* selected_index is an index of current_logs() when that is not empty, and
\* 0 when it is empty.
C27_SelectionInRange ==
    pc = "run" =>
        LET logs_len == Len(current_logs(app))
        IN  IF logs_len = 0 THEN app.selected_index = 0
            ELSE app.selected_index \in 0..(logs_len - 1)

\* In the filtered view of a file of three records, one of which the filter
\* keeps, jump_to_last has put the selection on that one record.
C27_Witness ==
    /\ pc = "run"
    /\ Len(app.all_logs) = 3
    /\ app.view_mode = "Filtered"
    /\ Len(app.filtered_logs) = 1
    /\ last.op = "jump_to_last"
    /\ app.selected_index = 0

====
